---- MODULE Spec2Model ----
(***************************************************************************)
(* A model of the Android shell manager: the session engine               *)
(* (core/shell.py, class Shell) and the session pool (core/manager.py,    *)
(* class ShellManager).                                                    *)
(*                                                                         *)
(* These specifications share this module:                                 *)
(*   Spec      one session, its channel and the remote shell behind it;   *)
(*             run_command poll by poll, the responsiveness probe and the  *)
(*             recovery protocol, against a remote that echoes, prints,    *)
(*             prompts, hangs, reacts to signals or dies.                  *)
(*   SpecLong  the same run_command loop with the long timeouts that the  *)
(*             inflated (slow command) thresholds need, against a remote   *)
(*             that is silent, prints or dies.  SpecLongFair adds the      *)
(*             fairness of a running thread.                               *)
(*   SpecPool  the pool: callers, the pool lock, the session locks, the   *)
(*             registries, every pool operation step by step.              *)
(*   SpecWarn  Spec for a command of the dangerous list.                   *)
(*   SpecHandle   one Shell whose holder connects and disconnects it.      *)
(*   SpecCleanup  the end of a completed run, for every captured output.   *)
(*   SpecBatch    run_commands_batch, for every commands argument.         *)
(*   SpecCheck    check_background_job calls for one job.                  *)
(*   SpecCwd      calls that give a working directory to one session.      *)
(*                                                                         *)
(* Time is counted in ticks of PROGRESS_CHECK_INTERVAL (0.5 s); one       *)
(* iteration of the polling loop takes one tick.                          *)
(* A channel carries lines; a line is one of the kinds below.  Tokens     *)
(* (uuid suffixes) are fresh for every call: a line that carries the      *)
(* token of an earlier call or probe is a line of its own kind.           *)
(***************************************************************************)
EXTENDS Integers, Sequences, FiniteSets, TLC

(* ---------------------------------------------------------------------- *)
(* Program constants (core/config.py)                                      *)
(* ---------------------------------------------------------------------- *)

\* ticks per second: PROGRESS_CHECK_INTERVAL = 0.5 s is one tick
TicksPerSecond == 2

PROGRESS_CHECK_INTERVAL == 1

STUCK_THRESHOLD_INTERVALS == 4

SLOW_COMMAND_TIMEOUT_MULTIPLIER == 10

\* MIN_TIME_BEFORE_STUCK_CHECK = 5.0 s
MinTimeSeconds == 5

MIN_TIME_BEFORE_STUCK_CHECK == MinTimeSeconds * TicksPerSecond

\* min_time_for_stuck *= 3 for a slow command
SlowMinTimeFactor == 3

\* the expect timeout of verify_responsive, 3 s
ProbeTimeoutSeconds == 3

\* the last lines scanned for a prompt: lines[-3:]
PromptWindow == 3

(* ---------------------------------------------------------------------- *)
(* Bounds of the model                                                     *)
(* ---------------------------------------------------------------------- *)

\* run calls made on the session in one behaviour of Spec
MaxCalls == 2

\* lines a remote program prints before the model stops counting them
MaxOut == 2

\* lines the channel buffers before the remote writer blocks
MaxChan == 3

\* lines of accumulated_output the model keeps (a sliding window)
AccCap == 5

\* the longest timeout, in seconds, of SpecLong
MaxTimeout == 21

\* lines the terminal queues before it drops what is typed
MaxInq == 8

(* ---------------------------------------------------------------------- *)
(* Commands: a command is a sequence of words                              *)
(* ---------------------------------------------------------------------- *)

CmdBlank == << >>

CmdEcho == <<"echo", "X123">>

CmdRm == <<"rm", "-i", "f">>

CmdSleep == <<"sleep", "30">>

Commands == {CmdBlank, CmdEcho, CmdRm, CmdSleep}

CmdTop == <<"top">>

CmdCatFile == <<"cat", "f">>

\* the words of DANGEROUS_COMMANDS that the vocabulary uses
DANGEROUS_COMMANDS == {"top", "cat", "sh", "su"}

\* Shell._check_dangerous_command: the command gets a warning
check_dangerous_command(command) ==
    /\ Len(command) > 0
    /\ command[1] \in DANGEROUS_COMMANDS
    /\ ~(command[1] \in {"cat", "python", "python3", "node"} /\ Len(command) > 1)
    /\ ~(command[1] \in {"sh", "bash", "zsh"} /\ \E i \in 1..Len(command) : command[i] = "-c")
    /\ ~(command[1] = "su" /\ \E i \in 1..Len(command) : command[i] = "-c")

\* a command that prints its line and exits 0 as soon as the shell runs it;
\* what the programs of the other commands do is open
IsTrivial(c) == c = CmdEcho

\* the words of SLOW_SILENT_COMMANDS that the vocabulary uses
SLOW_SILENT_COMMANDS == {"sleep", "find", "cp", "grep"}

\* words in which a SLOW_COMMAND_PATTERNS regex finds a match
SlowPatternWords == {"-q", "-s", "--quiet", "install", ">/dev/null"}

RecursiveFlags == {"-r", "-R", "--recursive", "-rf", "-Rf"}

\* words that contain one of large_paths
LargePathWords == {"/data", "/system", "/sdcard"}

Words(command) == {command[i] : i \in 1..Len(command)}

\* a variant of the classification that leaves out the list of base commands
is_slow_by_pattern(command) ==
    \/ Words(command) \cap SlowPatternWords # {}
    \/ Words(command) \cap RecursiveFlags # {}
    \/ Words(command) \cap LargePathWords # {}

\* Shell._is_slow_silent_command
is_slow_silent_command(command) ==
    \/ (Len(command) > 0 /\ command[1] \in SLOW_SILENT_COMMANDS)
    \/ Words(command) \cap SlowPatternWords # {}
    \/ Words(command) \cap RecursiveFlags # {}
    \/ Words(command) \cap LargePathWords # {}

\* the adaptive thresholds of run_command
stuck_threshold(is_slow) ==
    IF is_slow THEN STUCK_THRESHOLD_INTERVALS * SLOW_COMMAND_TIMEOUT_MULTIPLIER
    ELSE STUCK_THRESHOLD_INTERVALS

\* a variant that checks for a stall after one interval
min_time_for_stuck_short(is_slow) == PROGRESS_CHECK_INTERVAL

\* min_time_for_stuck of lines 419 and 424
min_time_for_stuck(is_slow) ==
    IF is_slow THEN MIN_TIME_BEFORE_STUCK_CHECK * SlowMinTimeFactor
    ELSE MIN_TIME_BEFORE_STUCK_CHECK

(* ---------------------------------------------------------------------- *)
(* Lines of the channel                                                    *)
(*   echo      the terminal's echo of the wrapped command line of the     *)
(*             call in progress: cmd; echo "<EXIT>$?<EXIT>"; echo "<END>"  *)
(*   out       a line the command of the call in progress printed         *)
(*   ask       such a line that ends like a prompt (trailing ':' or '?')  *)
(*   askyn     such a line with a specific prompt ([y/n], Password:)      *)
(*   exit0/1   the line <EXIT>code<EXIT> of the call in progress          *)
(*   end       the line <END> of the call in progress                     *)
(*   pingecho  the terminal's echo of the probe line of the probe in      *)
(*             progress; ping: the line the remote echo of it printed     *)
(*   old...    the same, of an earlier call                               *)
(*   noise     a line of an earlier probe, or the terminal's echo of a    *)
(*             line the recovery protocol typed: text that matches no     *)
(*             pattern and that the cleanup leaves in place               *)
(* Shell prompt lines are left out: they match no interactive pattern and *)
(* the cleanup drops them.                                                 *)
(* ---------------------------------------------------------------------- *)

CurLines == {"echo", "out", "ask", "askyn", "exit0", "exit1", "end", "pingecho", "ping"}

OldLines == {"oldecho", "oldout", "oldask", "oldaskyn", "oldmark", "noise"}

Lines == CurLines \cup OldLines

\* what a line of the call or probe in progress is once that call has returned
Aged(line) ==
    CASE line = "echo" -> "oldecho"
      [] line = "out" -> "oldout"
      [] line = "ask" -> "oldask"
      [] line = "askyn" -> "oldaskyn"
      [] line \in {"exit0", "exit1", "end"} -> "oldmark"
      [] line \in {"pingecho", "ping"} -> "noise"
      [] OTHER -> line

AgedSeq(s) == [i \in 1..Len(s) |-> Aged(s[i])]

\* a probe's lines once that probe has returned
AgedPing(line) == IF line \in {"pingecho", "ping"} THEN "noise" ELSE line

AgedPingSeq(s) == [i \in 1..Len(s) |-> AgedPing(s[i])]

\* lines typed to the remote terminal
\*   cmd      the wrapped command line of the call in progress
\*   pingcmd  the probe line "echo <PING>" of the probe in progress
\*   eof      the end-of-input that Ctrl+D leaves for the next reader
\* (the kill/fg line and the empty line of the recovery protocol print
\* nothing when the shell runs them, and are left out)
AgedInput(line) ==
    CASE line = "cmd" -> "oldcmd"
      [] line = "pingcmd" -> "oldpingcmd"
      [] OTHER -> line

\* probe lines of earlier probes that wait one behind the other are kept as
\* one: what they print is noise, on one line or on several
RECURSIVE Merged(_)
Merged(s) ==
    IF Len(s) < 2 THEN s
    ELSE IF s[1] = "oldpingcmd" /\ s[2] = "oldpingcmd" THEN Merged(Tail(s))
    ELSE <<s[1]>> \o Merged(Tail(s))

AgedInputSeq(s) == Merged([i \in 1..Len(s) |-> AgedInput(s[i])])

AgedPingInput(line) == IF line = "pingcmd" THEN "oldpingcmd" ELSE line

AgedPingInputSeq(s) == Merged([i \in 1..Len(s) |-> AgedPingInput(s[i])])

(* ---------------------------------------------------------------------- *)
(* The pure parts of run_command                                           *)
(* ---------------------------------------------------------------------- *)

Min(a, b) == IF a < b THEN a ELSE b

Max(a, b) == IF a > b THEN a ELSE b

\* the lines in which the END_TOKEN of the call in progress occurs
HasEndToken(line) == line \in {"end", "echo"}

\* marker in accumulated_output
marker_in(acc) == \E i \in 1..Len(acc) : HasEndToken(acc[i])

\* output.find(marker): the first line that holds the marker
marker_pos(acc) == CHOOSE i \in 1..Len(acc) :
    HasEndToken(acc[i]) /\ \A j \in 1..(i - 1) : ~HasEndToken(acc[j])

\* the patterns of INTERACTIVE_PROMPT_PATTERNS match these lines
MatchesInteractive(line) == line \in {"ask", "askyn", "oldask", "oldaskyn"}

\* the patterns of specific_prompts match these lines
MatchesSpecific(line) == line \in {"askyn", "oldaskyn"}

LastLines(acc) == SubSeq(acc, Max(1, Len(acc) - PromptWindow + 1), Len(acc))

\* Shell._detect_interactive_prompt: the matched pattern, or "none"
detect_interactive_prompt(acc) ==
    LET last == LastLines(acc) IN
    IF \E i \in 1..Len(last) : MatchesSpecific(last[i]) THEN "yn"
    ELSE IF \E i \in 1..Len(last) : MatchesInteractive(last[i]) THEN "colon"
    ELSE "none"

\* a variant of the scan of a slow command that uses the general patterns
detect_general_prompt(acc) == detect_interactive_prompt(acc)

\* the specific_prompts scan of a slow command: the matched pattern, or "none"
detect_specific_prompt(acc) ==
    LET last == LastLines(acc) IN
    IF \E i \in 1..Len(last) : MatchesSpecific(last[i]) THEN "yn" ELSE "none"

\* the prompt scan run_command makes after a read without the marker
prompt_scan(is_slow, acc) ==
    IF is_slow THEN detect_specific_prompt(acc) ELSE detect_interactive_prompt(acc)

\* output[:marker_pos]
before_marker(acc) == SubSeq(acc, 1, marker_pos(acc) - 1)

IsExitLine(line) == line \in {"exit0", "exit1"}

\* re.search(exit_marker(\d+)exit_marker): the code of the first exit line ("0", or
\* "1" for any other number), or "unknown"; the echo holds exit_marker$?exit_marker, which \d+ does not match
extract_exit_code(output) ==
    IF \E i \in 1..Len(output) : IsExitLine(output[i])
    THEN LET i == CHOOSE k \in 1..Len(output) :
                     IsExitLine(output[k]) /\ \A j \in 1..(k - 1) : ~IsExitLine(output[j])
         IN IF output[i] = "exit0" THEN "0" ELSE "1"
    ELSE "unknown"

\* a variant of the status line that tests the exit code for truth, so that
\* the code 0 reads as no code
completion_status_truthy(exit_code) ==
    IF exit_code \in {"unknown", "0"} THEN "COMPLETED" ELSE "COMMAND_FAILED"

\* the status line of a completed run
completion_status(exit_code) ==
    IF exit_code = "unknown" THEN "COMPLETED"
    ELSE IF exit_code = "0" THEN "SUCCESS" ELSE "COMMAND_FAILED"

\* lines a command prints that resemble the protocol: "mimic" holds the
\* MARKER_PREFIX or __EXIT_ with no hex digits behind it, "mimichex" holds text
\* and a string of the form of a token
MimicLines == {"mimic", "mimichex"}

\* the line holds the MARKER_PREFIX or a string of the form of an EXIT_TOKEN
HoldsToken(line) ==
    line \in {"echo", "end", "exit0", "exit1", "oldmark", "mimic", "mimichex"}

\* a variant of the cleanup without the filter of lines 575-576
cleaned_line_unfiltered(line) ==
    CASE IsExitLine(line) -> "drop"
      [] line = "echo" -> "drop"
      [] line = "end" -> "drop"
      [] line = "oldmark" -> ""
      [] line = "mimichex" -> "out"
      [] OTHER -> line

\* what the cleanup leaves of a line: "drop" (the line goes), "" (an empty
\* line stays) or the line.  The substitutions of lines 538-560 take the
\* tokens out of a line, and the filter of lines 575-576 drops every line that
\* still holds the MARKER_PREFIX or __EXIT_
cleaned_line(line) ==
    CASE IsExitLine(line) -> "drop"
      [] line = "echo" -> "drop"
      [] line = "end" -> "drop"
      [] line = "oldmark" -> ""
      [] line = "mimichex" -> "out"
      [] line = "mimic" -> "drop"
      [] OTHER -> line

RECURSIVE strip_leading(_)
strip_leading(s) ==
    IF s = << >> THEN s
    ELSE IF Head(s) = "" THEN strip_leading(Tail(s)) ELSE s

RECURSIVE strip_trailing(_)
strip_trailing(s) ==
    IF s = << >> THEN s
    ELSE IF s[Len(s)] = "" THEN strip_trailing(SubSeq(s, 1, Len(s) - 1)) ELSE s

KeptLine(line) == cleaned_line(line) # "drop"

\* final_output of run_command
clean_output(output) ==
    LET kept == SelectSeq(output, KeptLine)
        mapped == [i \in 1..Len(kept) |-> cleaned_line(kept[i])]
    IN strip_trailing(strip_leading(mapped))

(* ---------------------------------------------------------------------- *)
(* State                                                                   *)
(* ---------------------------------------------------------------------- *)

VARIABLES
    \* --- the session engine (one Shell object) ---
    cfg,                        \* what the caller of this behaviour may ask for
    pc,                         \* where the engine is: idle, probe (run_command waits
                                \* in verify_responsive), loop, rec (recovery is about
                                \* to send a stage), rprobe (recovery waits in
                                \* verify_responsive)
    calls,                      \* run_command calls made so far
    command,                    \* the command of the call in progress
    timeout_seconds,            \* its timeout
    accumulated_output,         \* the lines read so far by the call in progress
    acc_lost,                   \* the model's window has dropped lines of them
    clock,                      \* time.time() - start_time, in ticks
    last_output_time,           \* last_output_time - start_time, in ticks
    intervals_without_progress,
    rec_why,                    \* the verdict that started recovery
    rec_stage,                  \* the recovery stage to send next, 1..4
    detected_prompt,            \* the pattern that prompt detection matched
    results,                    \* the results returned so far, in order
    is_connected,               \* Shell._is_connected
    \* --- the remote side of the channel ---
    chan,                       \* lines written by the remote, not yet read
    inq,                        \* lines typed to the remote, not yet consumed
    rstate,                     \* none (no process), prompt (the shell reads its
                                \* input), fg (a program holds the terminal), dead
    prog_cur,                   \* the program in the foreground is the command of
                                \* the call in progress
    produced,                   \* lines the program in the foreground has printed
    echo_on,                    \* the terminal echoes typed lines verbatim
    su_shell,                   \* the shell that su started at connect reads the terminal
    \* --- what the command of the call in progress really did ---
    true_code,                  \* its exit code, "none" while it has not finished,
                                \* "late" if it finished when the call was no longer
                                \* polling below its timeout
    true_out,                   \* the "out" lines it printed
    true_asked,                 \* it printed a prompt line
    true_last                   \* the last line it printed, if it printed it while
                                \* the call was polling, below its timeout

call_vars == <<calls, command, timeout_seconds>>

loop_vars == <<accumulated_output, acc_lost, clock, last_output_time,
               intervals_without_progress>>

rec_vars == <<rec_why, rec_stage, detected_prompt>>

engine_vars == <<cfg, pc, call_vars, loop_vars, rec_vars, results, is_connected>>

prog_vars == <<prog_cur, produced>>

remote_vars == <<chan, inq, rstate, prog_vars, echo_on, su_shell>>

truth_vars == <<true_code, true_out, true_asked, true_last>>

session_vars == <<engine_vars, remote_vars, truth_vars>>

VARIABLES
    \* --- the pool (one ShellManager object) and the threads that call it ---
    shells,                     \* ShellManager._shells: shell id -> Shell object
    background_jobs,            \* ShellManager._background_jobs: job id -> shell id
    pool_lock,                  \* ShellManager._lock: the thread that holds it, or "free"
    session_lock,               \* Shell._lock of every Shell object
    shell_connected,            \* Shell._is_connected of every Shell object
    shell_alive,                \* the process of every Shell object is alive
    made,                       \* the Shell objects made
    sent,                       \* lines written to the channel of every Shell object
    th                          \* the threads: where each is in its pool operation

pool_vars == <<shells, background_jobs, pool_lock, session_lock, shell_connected,
               shell_alive, made, sent, th>>

VARIABLES
    \* --- one Shell object in the hands of its holder ---
    process,                    \* Shell._process: 0 for None, else the ordinal of the
                                \* connect call that spawned it
    connect_calls,              \* connect calls made so far
    connect_result,             \* the status the last connect call returned
    time_now,                        \* time.time(), in ticks
    last_activity,              \* Shell._last_activity
    shell_type,                 \* Shell.shell_type: root or user
    device,                     \* what the device did in the last handshake
    connect_reason,             \* the reason of the last connect call's ERROR
    handle_sent,                \* the lines the last connect or disconnect call sent
    disconnect_calls,           \* disconnect calls made so far
    disconnect_result           \* the status the last disconnect call returned

handle_vars == <<process, connect_calls, connect_result, time_now, last_activity,
                 shell_type, device, connect_reason, handle_sent, disconnect_calls,
                 disconnect_result>>

VARIABLES
    \* --- the end of one run_command call, lines 525-602 ---
    raw_output,                 \* accumulated_output when the loop has ended
    completion                  \* the result made of it, once it is made

cleanup_vars == <<raw_output, completion>>

VARIABLES
    \* --- one run_commands_batch call on a registered session ---
    commands,                   \* the commands argument
    stop_on_error,              \* the stop_on_error argument
    batch_pc,                   \* idle, loop, break, returned, or raised (an
                                \* exception left run_commands_batch)
    entry,                      \* the index of the entry the loop is at
    succeeded,
    failed,
    batch_results,              \* the results list: an entry index and what is said of it
    batch_return,               \* what the call returned, once it has
    ran                         \* the run_command calls made on the session: the
                                \* entry, and the result that came back

batch_vars == <<commands, stop_on_error, batch_pc, entry, succeeded, failed, batch_results,
                batch_return, ran>>

VARIABLES
    \* --- check_background_job calls for one job ---
    check_pc,                   \* idle, read (before the cat), search (before the ps)
    checks,                     \* check_background_job calls made so far
    job_runs,                   \* run_command calls those checks have made
    read_result,                \* status of what the last read of the output file returned
    search_result,              \* what the last process-table search returned
    check_return                \* what the last check returned, once it has

check_vars == <<check_pc, checks, job_runs, read_result, search_result, check_return>>

VARIABLES
    \* --- run_in_shell and batch entries with a working directory ---
    cwd_pc,                     \* idle, or typed: run_command has typed the line
    cwd_calls,                  \* calls made so far
    given,                      \* the command and working directory of the caller
    actual_cmd,                 \* the command run_command was called with
    warning,                    \* run_command attaches the advisory
    slow_class,                 \* run_command takes the command for slow or silent
    session_dir,                \* the working directory of the remote shell
    executed                    \* what the remote shell ran: the directory before,
                                \* and the directory the command ran in

cwd_vars == <<cwd_pc, cwd_calls, given, actual_cmd, warning, slow_class, session_dir,
              executed>>

unit_vars == <<handle_vars, cleanup_vars, batch_vars, check_vars, cwd_vars>>

\* the timeouts, in seconds, a caller of Spec asks for: the one of the timeout
\* test, and the shortest that lets an ordinary command reach the stuck check
TestTimeout == 3

StuckTimeout == MinTimeSeconds + 1

\* the calls of a behaviour of Spec: any command first, then the trivial
\* command the tests follow a timeout with
CfgRun == [budget |-> MaxCalls,
           first |-> Commands \X {TestTimeout, StuckTimeout},
           later |-> {<<CmdEcho, TestTimeout>>},
           kinds |-> {"out", "ask", "askyn"}, stream |-> FALSE, room |-> MaxChan,
           truth |-> TRUE]

\* the call of a behaviour of SpecWarn: a command of the dangerous list, or
\* one that an exception of the list covers
CfgWarn == [budget |-> 1,
            first |-> {CmdTop, CmdCatFile} \X {TestTimeout, StuckTimeout},
            later |-> {},
            kinds |-> {"out", "askyn"}, stream |-> FALSE, room |-> MaxChan, truth |-> TRUE]

\* the call of a behaviour of SpecLong: a command whose program prints without
\* end, one line at a time; what the command really did is not followed
CfgLong == [budget |-> 1,
            first |-> {CmdRm, CmdSleep} \X {TestTimeout, MaxTimeout},
            later |-> {},
            kinds |-> {"out", "askyn"}, stream |-> TRUE, room |-> 1, truth |-> FALSE]

\* Shell.__init__: no process, not connected
InitSession(c, e) ==
    /\ cfg = c
    /\ pc = "idle"
    /\ calls = 0
    /\ command = CmdBlank
    /\ timeout_seconds = 0
    /\ accumulated_output = << >>
    /\ acc_lost = FALSE
    /\ clock = 0
    /\ last_output_time = 0
    /\ intervals_without_progress = 0
    /\ rec_why = "none"
    /\ rec_stage = 0
    /\ detected_prompt = "none"
    /\ results = << >>
    /\ is_connected = FALSE
    /\ chan = << >>
    /\ inq = << >>
    /\ rstate = "none"
    /\ prog_cur = FALSE
    /\ produced = 0
    /\ echo_on \in e
    /\ su_shell = FALSE
    /\ true_code = "none"
    /\ true_out = 0
    /\ true_asked = FALSE
    /\ true_last = "none"

(* ---------------------------------------------------------------------- *)
(* The remote: the terminal, the shell and the program it runs             *)
(* A program in the foreground does not read what is typed: typed lines    *)
(* wait in the terminal's queue until the shell has the terminal again.    *)
(* ---------------------------------------------------------------------- *)

\* a line is typed; the terminal drops it when its queue is full
Typed(q, line) == IF Len(q) < MaxInq THEN Append(q, line) ELSE q

\* what the terminal writes back when a line is typed
Echoed(ch, line) == IF echo_on THEN Append(ch, line) ELSE ch

\* the call in progress is polling and has not reached its timeout
InTime == pc = "loop" /\ clock < timeout_seconds * TicksPerSecond

\* the program in the foreground is the command of the call in progress, and
\* the behaviour follows what it does
Tracked == prog_cur /\ cfg.truth

\* the shell is at its prompt with input to read: it reads it before time passes
ShellHasWork == rstate = "prompt" /\ inq # << >>

\* the lines "echo <EXIT>code<EXIT>; echo <END>" print once the command is over
MarkerLines(code) ==
    IF prog_cur THEN <<IF code = "0" THEN "exit0" ELSE "exit1", "end">>
    ELSE <<"oldmark", "oldmark">>

\* the shell reads the next typed line and runs it; an end-of-input makes it
\* exit or not (ignoreeof).  When the shell that su started exits, the shell
\* that adb started reads the terminal again
ShellExec ==
    /\ ShellHasWork
    /\ LET line == Head(inq) IN
          \/ /\ line = "pingcmd"
             /\ inq' = Tail(inq)
             /\ chan' = Append(chan, "ping")
             /\ UNCHANGED <<rstate, prog_vars, truth_vars, su_shell>>
          \/ /\ line = "oldpingcmd"
             /\ inq' = Tail(inq)
             /\ chan' = Append(chan, "noise")
             /\ UNCHANGED <<rstate, prog_vars, truth_vars, su_shell>>
          \/ /\ line = "cmd"
             /\ IsTrivial(command)
             /\ inq' = Tail(inq)
             /\ chan' = chan \o <<"out", "exit0", "end">>
             /\ true_out' = IF cfg.truth THEN 1 ELSE true_out
             /\ true_code' = IF ~cfg.truth THEN true_code
                             ELSE IF InTime THEN "0" ELSE "late"
             /\ true_last' = IF ~cfg.truth THEN true_last
                             ELSE IF InTime THEN "out" ELSE "late"
             /\ UNCHANGED <<rstate, prog_vars, true_asked, su_shell>>
          \/ /\ \/ line = "cmd" /\ ~IsTrivial(command)
                \/ line = "oldcmd"
             /\ inq' = Tail(inq)
             /\ rstate' = "fg"
             /\ prog_cur' = (line = "cmd")
             /\ produced' = 0
             /\ UNCHANGED <<chan, truth_vars, su_shell>>
          \/ /\ line = "eof"
             /\ \/ /\ inq' = Tail(inq)
                   /\ UNCHANGED <<chan, rstate, su_shell>>
                \/ /\ su_shell
                   /\ su_shell' = FALSE
                   /\ inq' = Tail(inq)
                   /\ UNCHANGED <<chan, rstate>>
                \/ /\ rstate' = "dead"
                   /\ chan' = << >>
                   /\ inq' = << >>
                   /\ UNCHANGED su_shell
             /\ UNCHANGED <<prog_vars, truth_vars>>
    /\ UNCHANGED <<engine_vars, echo_on>>
    /\ UNCHANGED <<pool_vars, unit_vars>>

\* the program in the foreground prints a line
ProgPrint ==
    /\ rstate = "fg"
    /\ Len(chan) < cfg.room
    /\ cfg.stream \/ produced < MaxOut
    /\ \E kind \in cfg.kinds :
          /\ chan' = Append(chan, IF prog_cur THEN kind ELSE Aged(kind))
          /\ true_out' = IF Tracked /\ kind = "out"
                         THEN Min(true_out + 1, MaxOut + 1) ELSE true_out
          /\ true_asked' = (true_asked \/ (Tracked /\ kind # "out"))
          /\ true_last' = IF ~Tracked THEN true_last
                          ELSE IF InTime THEN kind ELSE "late"
    /\ produced' = IF cfg.stream THEN 0 ELSE produced + 1
    /\ UNCHANGED <<engine_vars, inq, rstate, prog_cur, echo_on, su_shell, true_code>>
    /\ UNCHANGED <<pool_vars, unit_vars>>

\* the program in the foreground exits; the shell runs the rest of the line
ProgFinish ==
    /\ rstate = "fg"
    /\ \E code \in {"0", "1"} :
          /\ chan' = chan \o MarkerLines(code)
          /\ true_code' = IF ~Tracked THEN true_code
                          ELSE IF InTime THEN code ELSE "late"
    /\ rstate' = "prompt"
    /\ prog_cur' = FALSE
    /\ produced' = 0
    /\ UNCHANGED <<engine_vars, inq, echo_on, su_shell, true_out, true_asked, true_last>>
    /\ UNCHANGED <<pool_vars, unit_vars>>

\* the shell process dies (the device goes away).  Nothing reads the channel
\* of a dead process (lines 151 and 244): what it holds is dropped
Die ==
    /\ rstate \in {"prompt", "fg"}
    /\ rstate' = "dead"
    /\ prog_cur' = FALSE
    /\ produced' = 0
    /\ chan' = << >>
    /\ inq' = << >>
    /\ UNCHANGED <<engine_vars, echo_on, su_shell, truth_vars>>
    /\ UNCHANGED <<pool_vars, unit_vars>>

(* ---------------------------------------------------------------------- *)
(* The engine: Shell.connect, verify_responsive, run_command               *)
(* ---------------------------------------------------------------------- *)

process_alive == rstate \in {"prompt", "fg"}

is_alive_unchecked == TRUE

\* Shell.is_alive
is_alive == is_connected /\ process_alive

\* Shell.connect, the handshake taken as one step: it ends with a shell at its
\* prompt and the session connected, or with no process and not connected
Connect ==
    /\ pc = "idle"
    /\ rstate = "none"
    /\ \/ /\ rstate' = "prompt"
          /\ is_connected' = TRUE
          /\ su_shell' = (shell_type = "root")
       \/ /\ rstate' = "none"
          /\ is_connected' = FALSE
          /\ su_shell' = FALSE
    /\ chan' = << >>
    /\ inq' = << >>
    /\ UNCHANGED <<cfg, pc, call_vars, loop_vars, rec_vars, results, prog_vars, echo_on,
                   truth_vars>>
    /\ UNCHANGED <<pool_vars, unit_vars>>

\* a result of run_command; no warning is in it unless its text is built with
\* warning or warning_msg
Result(status, code, output, label, recovery, pattern, reason) ==
    [status |-> status, exit_code |-> code, output |-> output, label |-> label,
     recovery |-> recovery, pattern |-> pattern, reason |-> reason, warning |-> FALSE]

ErrorResult(reason) == Result("ERROR", "none", << >>, "none", "none", "none", reason)

\* the result of a run that saw the END_TOKEN (lines 525-602)
CompletionResult(acc) ==
    LET output == before_marker(acc)
        exit_code == extract_exit_code(output)
    IN [Result(completion_status(exit_code), exit_code, clean_output(output), "OUTPUT:",
               "none", "none", "none")
          EXCEPT !.warning = check_dangerous_command(command)]

\* the results that follow recovery (lines 432-439, 460-467, 479-485)
RecoveryResult(recovered) ==
    [Result(rec_why, "none", accumulated_output, "OUTPUT:",
            IF recovered THEN "recovered" ELSE "failed", detected_prompt, "none")
       EXCEPT !.warning = check_dangerous_command(command)]

\* the UNCERTAIN result (lines 503-523)
UncertainResult ==
    [Result("UNCERTAIN", "none", accumulated_output, "PARTIAL OUTPUT SO FAR", "none",
            "none", "none")
       EXCEPT !.warning = check_dangerous_command(command)]

\* run_commands_batch, lines 227-238: the lines of a result that follow a line
\* beginning with OUTPUT:
extract_output(result) == IF result.label = "OUTPUT:" THEN result.output ELSE << >>

\* what the model keeps of the results of the calls before the last
Summary(r) == [r EXCEPT !.output = << >>, !.pattern = "none", !.reason = "none",
                          !.label = "none"]

Summaries(rs) == [i \in 1..Len(rs) |-> Summary(rs[i])]

\* the locals of run_command once the call has returned
NoLocals ==
    /\ accumulated_output' = << >>
    /\ acc_lost' = FALSE
    /\ clock' = 0
    /\ last_output_time' = 0
    /\ intervals_without_progress' = 0
    /\ rec_why' = "none"
    /\ rec_stage' = 0
    /\ detected_prompt' = "none"

\* the call returns (and the session lock is released); the model notes the
\* command and the timeout of the call beside the result
ReturnOnto(rs, c, t, result) ==
    /\ results' = Append(rs, result @@ [command |-> c, timeout |-> t])
    /\ pc' = "idle"
    /\ NoLocals

ReturnFor(c, t, result) == ReturnOnto(results, c, t, result)

Return(result) == ReturnFor(command, timeout_seconds, result)

\* verify_responsive up to its sendline: the probe line is typed
SendProbe(ch, q) ==
    /\ chan' = Echoed(ch, "pingecho")
    /\ inq' = Typed(q, "pingcmd")

\* run_command is entered (the session lock is taken), lines 384-399 up to the
\* sendline of verify_responsive
Call ==
    /\ pc = "idle"
    /\ calls < cfg.budget
    /\ calls' = calls + 1
    /\ \E ct \in (IF calls = 0 THEN cfg.first ELSE cfg.later) :
          /\ command' = ct[1]
          /\ timeout_seconds' = ct[2]
    /\ true_code' = "none"
    /\ true_out' = 0
    /\ true_asked' = FALSE
    /\ true_last' = "none"
    /\ IF command' = CmdBlank
       THEN /\ ReturnOnto(Summaries(results), command', timeout_seconds',
                       ErrorResult("Empty command."))
            /\ chan' = AgedSeq(chan)
            /\ inq' = AgedInputSeq(inq)
       ELSE IF ~is_alive
       THEN /\ ReturnOnto(Summaries(results), command', timeout_seconds',
                       ErrorResult("Shell not connected."))
            /\ chan' = AgedSeq(chan)
            /\ inq' = AgedInputSeq(inq)
       ELSE /\ SendProbe(AgedSeq(chan), AgedInputSeq(inq))
            /\ pc' = "probe"
            /\ results' = Summaries(results)
            /\ UNCHANGED <<loop_vars, rec_vars>>
    /\ prog_cur' = FALSE
    /\ UNCHANGED <<cfg, is_connected, rstate, produced, echo_on, su_shell>>
    /\ UNCHANGED <<pool_vars, unit_vars>>

IsPingLine(line) == line \in {"ping", "pingecho"}

\* the probe token is in what expect can read
PingFound == \E i \in 1..Len(chan) : IsPingLine(chan[i])

FirstPing == CHOOSE i \in 1..Len(chan) :
    IsPingLine(chan[i]) /\ \A j \in 1..(i - 1) : ~IsPingLine(chan[j])

\* what expect leaves to a later read_nonblocking when it matched the probe
\* token: it has read k lines, the match among them, and keeps them
AfterMatch(k) == AgedPingSeq(SubSeq(chan, k + 1, Len(chan)))

\* the expect of verify_responsive may give up: the token has not come and the
\* shell is not at its prompt about to read the probe line
ProbeMayFail == ~PingFound /\ ~ShellHasWork

\* lines 401-415: the wrapped command is sent and the loop begins
SendWrappedFrom(ch) ==
    /\ chan' = Echoed(ch, "echo")
    /\ inq' = Typed(AgedPingInputSeq(inq), "cmd")
    /\ pc' = "loop"
    /\ UNCHANGED <<results, loop_vars, rec_vars>>

\* verify_responsive returns to run_command (line 398); on True the wrapped
\* command is sent (line 407), which raises when the process has just gone
ProbeReturns ==
    /\ pc = "probe"
    /\ \/ /\ PingFound
          /\ \E k \in FirstPing..Len(chan) :
                \/ /\ SendWrappedFrom(AfterMatch(k))
                   /\ UNCHANGED <<rstate, prog_vars>>
                \/ /\ rstate' = "dead"
                   /\ prog_cur' = FALSE
                   /\ produced' = 0
                   /\ chan' = << >>
                   /\ inq' = << >>
                   /\ Return(ErrorResult("exception"))
       \/ /\ ProbeMayFail
          /\ chan' = << >>
          /\ inq' = AgedPingInputSeq(inq)
          /\ Return(ErrorResult("Shell not responding."))
          /\ UNCHANGED <<rstate, prog_vars>>
    /\ UNCHANGED <<cfg, call_vars, is_connected, echo_on, su_shell, truth_vars>>
    /\ UNCHANGED <<pool_vars, unit_vars>>

\* the window the model keeps of accumulated_output
Window(acc) == IF Len(acc) > AccCap THEN SubSeq(acc, Len(acc) - AccCap + 1, Len(acc)) ELSE acc

\* recovery begins; the locals of the loop that it does not read are dropped
StartRecovery(why, pattern, acc, lost) ==
    /\ pc' = "rec"
    /\ rec_why' = why
    /\ rec_stage' = 1
    /\ detected_prompt' = pattern
    /\ accumulated_output' = acc
    /\ acc_lost' = lost
    /\ clock' = 0
    /\ last_output_time' = 0
    /\ intervals_without_progress' = 0
    /\ UNCHANGED results

\* lines 444-485: new bytes were read
AfterRead(full) ==
    IF marker_in(full)
    THEN Return(CompletionResult(full))
    ELSE IF prompt_scan(is_slow_silent_command(command), full) # "none"
    THEN StartRecovery("WAITING_FOR_INPUT",
                       prompt_scan(is_slow_silent_command(command), full),
                       Window(full), acc_lost \/ Len(full) > AccCap)
    ELSE /\ accumulated_output' = Window(full)
         /\ acc_lost' = (acc_lost \/ Len(full) > AccCap)
         /\ clock' = clock + PROGRESS_CHECK_INTERVAL
         /\ last_output_time' = clock'
         /\ intervals_without_progress' = 0
         /\ UNCHANGED <<pc, results, rec_vars>>

\* a variant of keep_waiting that also restarts the clock of the call
keep_waiting_restart(now) ==
    /\ intervals_without_progress' = 0
    /\ clock' = 0

\* a variant of the stuck check that leaves out the minimum wait of line 495
stuck_by_count(is_slow_cmd, n, elapsed, time_since_output) ==
    n >= stuck_threshold(is_slow_cmd)

\* the stuck check of line 491 and 495
stuck(is_slow_cmd, n, elapsed, time_since_output) ==
    /\ n >= stuck_threshold(is_slow_cmd)
    /\ elapsed > min_time_for_stuck(is_slow_cmd)
    /\ time_since_output > min_time_for_stuck(is_slow_cmd)

\* lines 497-499: a slow command is waited for; the start time stays
keep_waiting(now) ==
    /\ intervals_without_progress' = 0
    /\ clock' = now

\* lines 486-523: the read returned nothing, and the counter has come to n
AfterEmptyRead(n) ==
    LET is_slow_cmd == is_slow_silent_command(command)
        elapsed == clock
        now == clock + PROGRESS_CHECK_INTERVAL
    IN IF stuck(is_slow_cmd, n, elapsed, now - last_output_time)
       THEN IF is_slow_cmd
            THEN /\ keep_waiting(now)
                 /\ UNCHANGED <<pc, results, accumulated_output, acc_lost,
                                last_output_time, rec_vars>>
            ELSE Return(UncertainResult)
       ELSE /\ intervals_without_progress' = n
            /\ clock' = now
            /\ UNCHANGED <<pc, results, accumulated_output, acc_lost, last_output_time,
                           rec_vars>>

\* elapsed >= timeout_seconds (line 430)
timed_out(elapsed, timeout) == elapsed >= timeout * TicksPerSecond

\* one iteration of the loop of run_command below the timeout check:
\* _read_available_output and what follows it.  A read of a live process
\* takes the interval.  A read of a dead one returns at once (line 244): the
\* loop spins, and within one interval the counter runs up to the threshold
Poll ==
    /\ pc = "loop"
    /\ ~timed_out(clock, timeout_seconds)
    /\ \/ /\ process_alive
          /\ chan # << >>
          /\ \E k \in 1..Len(chan) :
                /\ chan' = SubSeq(chan, k + 1, Len(chan))
                /\ AfterRead(accumulated_output \o SubSeq(chan, 1, k))
       \/ /\ process_alive
          /\ chan = << >>
          /\ ~ShellHasWork
          /\ AfterEmptyRead(intervals_without_progress + 1)
          /\ UNCHANGED chan
       \/ /\ ~process_alive
          /\ AfterEmptyRead(Max(intervals_without_progress + 1,
                                stuck_threshold(is_slow_silent_command(command))))
          /\ UNCHANGED chan
    /\ UNCHANGED <<cfg, call_vars, is_connected, inq, rstate, prog_vars, echo_on, su_shell, truth_vars>>
    /\ UNCHANGED <<pool_vars, unit_vars>>

\* lines 430-432: the hard timeout check sends the call into recovery
HardTimeout ==
    /\ pc = "loop"
    /\ timed_out(clock, timeout_seconds)
    /\ StartRecovery("TIMEOUT", "none", accumulated_output, acc_lost)
    /\ UNCHANGED <<cfg, call_vars, is_connected, remote_vars, truth_vars>>
    /\ UNCHANGED <<pool_vars, unit_vars>>

(* ---------------------------------------------------------------------- *)
(* The recovery protocol: Shell._multi_stage_interrupt                     *)
(* ---------------------------------------------------------------------- *)

\* a variant whose stages end the process
StageOutcomesFatal(stage) == {[r |-> "dead", ch |-> << >>, q |-> << >>]}

\* what a stage types, and what the remote makes of it at once: a record of
\* the remote's state, channel and input queue after the stage
\*   stage 1  Ctrl+C: the program in the foreground dies (the shell drops the
\*            rest of the line, the terminal flushes its input) or ignores it
\*   stage 2  Ctrl+D: an end-of-input is queued for whoever reads next
\*   stage 3  Ctrl+Z: the program stops (the shell has the terminal again and
\*            may run the rest of the line) or ignores it; then the kill/fg
\*            line, which prints nothing
\*   stage 4  an empty line, which prints nothing
StageOutcomes(stage) ==
    LET same == [r |-> rstate, ch |-> chan, q |-> inq]
    IN IF ~process_alive THEN {same}
       ELSE CASE stage = 1 ->
                   {same} \cup
                   (IF rstate = "fg" THEN {[r |-> "prompt", ch |-> chan, q |-> << >>]} ELSE {})
              [] stage = 2 ->
                   {[r |-> rstate, ch |-> chan, q |-> Typed(inq, "eof")]}
              [] stage = 3 ->
                   {[r |-> rstate, ch |-> Echoed(chan, "noise"), q |-> inq]}
                   \cup
                   (IF rstate = "fg"
                    THEN {[r |-> "prompt", ch |-> Echoed(chan \o m, "noise"), q |-> inq] :
                             m \in {<< >>, MarkerLines("1")}}
                    ELSE {})
              [] OTHER -> {same}

LastStage == 4

\* a variant that gives up at the first probe that failed
StageFailedOnce == Return(RecoveryResult(FALSE))

\* the probe of a stage failed: the next stage, or the result "Recovery FAILED"
StageFailed ==
    IF rec_stage = LastStage
    THEN Return(RecoveryResult(FALSE))
    ELSE /\ rec_stage' = rec_stage + 1
         /\ pc' = "rec"
         /\ UNCHANGED <<results, loop_vars, rec_why, detected_prompt>>

\* a stage is sent, and verify_responsive types its probe line
RecStage ==
    /\ pc = "rec"
    /\ \E o \in StageOutcomes(rec_stage) :
          /\ rstate' = o.r
          /\ prog_cur' = (prog_cur /\ o.r = "fg")
          /\ produced' = IF o.r = "fg" THEN produced ELSE 0
          /\ IF is_connected /\ o.r \in {"prompt", "fg"}
             THEN /\ SendProbe(o.ch, o.q)
                  /\ pc' = "rprobe"
                  /\ UNCHANGED <<results, loop_vars, rec_vars>>
             ELSE /\ chan' = o.ch
                  /\ inq' = o.q
                  /\ StageFailed
    /\ UNCHANGED <<cfg, call_vars, is_connected, echo_on, su_shell, truth_vars>>
    /\ UNCHANGED <<pool_vars, unit_vars>>

\* verify_responsive returns to _multi_stage_interrupt
RecProbeReturns ==
    /\ pc = "rprobe"
    /\ \/ /\ PingFound
          /\ \E k \in FirstPing..Len(chan) : chan' = AfterMatch(k)
          /\ Return(RecoveryResult(TRUE))
       \/ /\ ProbeMayFail
          /\ chan' = << >>
          /\ StageFailed
    /\ inq' = AgedPingInputSeq(inq)
    /\ UNCHANGED <<cfg, call_vars, is_connected, rstate, prog_vars, echo_on, su_shell, truth_vars>>
    /\ UNCHANGED <<pool_vars, unit_vars>>

(* ---------------------------------------------------------------------- *)
(* The pool: ShellManager, and the threads that call it                    *)
(* A run_command is three steps here (lock and probe, wrapped command,     *)
(* result); what happens between them is the subject of Spec.              *)
(* ---------------------------------------------------------------------- *)

\* the Shell objects start_shell makes, each made once
ShellObjects == {"o1", "o2"}

\* the ids _generate_shell_id returns (serial, type and four random hex digits:
\* nothing keeps two calls from returning the same id), and an id it never
\* returns
ShellIds == {"s1", "s2"}

NoShell == "nosuch"

Targets == ShellIds \cup {NoShell}

\* the job ids run_background generates, and an id it never generates
JobIds == {"j1"}

NoJob == "nojob"

Threads == {"t1", "t2"}

\* lines written to a channel before the model stops counting them
MaxSent == 1

\* the commands of a batch
MaxBatch == 2

\* the two run_command calls of check_background_job (lines 390 and 393)
CheckRuns == 2

\* the pool operations that take a shell id
SessionOps == {"run", "run_batch", "background", "stop", "status", "peek",
               "send_input", "send_control"}

PoolOps == SessionOps \cup {"start", "check", "list", "stop_all"}

\* a thread: where it is, its operation, the shell id and job id it was given,
\* the Shell object it holds, the run_command calls left, the Shell objects left
\* to visit, and what its last operation returned
Idle == [pc |-> "idle", op |-> "none", sid |-> "none", sh |-> "none", jid |-> "none",
         left |-> 0, todo |-> {}, result |-> "none"]

\* a registry with no entry
NoEntries == [k \in {} |-> "none"]

\* the Shell objects of the registry
Registered == {shells[k] : k \in DOMAIN shells}

\* ShellManager.__init__, and no Shell object yet
PoolInit ==
    /\ shells = NoEntries
    /\ background_jobs = NoEntries
    /\ pool_lock = "free"
    /\ session_lock = [s \in ShellObjects |-> "free"]
    /\ shell_connected = [s \in ShellObjects |-> FALSE]
    /\ shell_alive = [s \in ShellObjects |-> FALSE]
    /\ made = {}
    /\ sent = [s \in ShellObjects |-> 0]
    /\ th = [t \in Threads |-> Idle]

\* a variant of pop that empties the registry
pop_all(registry, key) == NoEntries

\* self._shells.pop(shell_id), line 155
pop(registry, key) == [k \in DOMAIN registry \ {key} |-> registry[k]]

\* shell_id in self._shells
known(sid) == sid \in DOMAIN shells

\* job_id in self._background_jobs
known_job(jid) == jid \in DOMAIN background_jobs

\* a variant of the pool lock that is never given
pool_lock_never == FALSE

\* with self._lock of the manager can be entered
pool_lock_free == pool_lock = "free"

\* a variant of the session lock that never makes a caller wait
session_lock_ignored(s) == TRUE

\* with self._lock of a Shell can be entered
session_lock_free(s) == session_lock[s] = "free"

\* a variant of is_alive that takes every Shell for alive
shell_is_alive_always(s) == TRUE

\* Shell.is_alive of a Shell object
shell_is_alive(s) == shell_connected[s] /\ shell_alive[s]

\* a line is written to the channel of s
Written(s) == [sent EXCEPT ![s] = Min(@ + 1, MaxSent)]

\* a variant of the outcome that tells no not-found error from other results
OutcomeReturned(result) == "returned"

\* what a returned operation leaves behind: a not-found error, the error of a
\* start_shell, or anything else
Outcome(result) ==
    IF result \in {"not_found", "start_failed"} THEN result ELSE "returned"

\* the operation of t returns
Done(t, result) == th' = [th EXCEPT ![t] = [Idle EXCEPT !.result = Outcome(result)]]

Goto(t, where) == th' = [th EXCEPT ![t].pc = where]

\* Shell(...) of line 138: a new object, told from the others only by being new
NewShellOf(objects) == CHOOSE o \in ShellObjects \ objects : TRUE

NewShell == NewShellOf(made)

\* a pool operation is called; all but start_shell begin by taking the pool
\* lock (lines 151, 160, 186, 341, 380, 401, 412, 422, 431, 440, 467).
\* start_shell begins with the device check (lines 122-134), then generates
\* the id and makes the Shell object (lines 137-138)
Begin(t) ==
    /\ th[t].pc = "idle"
    /\ \E op \in PoolOps, sid \in Targets \cup {"none"}, jid \in JobIds \cup {NoJob, "none"} :
          /\ CASE op = "start" -> sid \in ShellIds /\ jid = "none"
               [] op = "background" -> sid \in Targets /\ jid \in JobIds
               [] op = "check" -> sid = "none" /\ jid \in JobIds \cup {NoJob}
               [] op \in {"list", "stop_all"} -> sid = "none" /\ jid = "none"
               [] OTHER -> sid \in Targets /\ jid = "none"
          /\ IF op = "start"
             THEN /\ \/ /\ sid = CHOOSE k \in ShellIds : TRUE
                        /\ Done(t, "start_failed")
                        /\ UNCHANGED made
                     \/ /\ ShellObjects \ made # {}
                        /\ made' = made \cup {NewShell}
                        /\ th' = [th EXCEPT ![t] = [Idle EXCEPT !.pc = "connect", !.op = op,
                                                                 !.sid = sid, !.sh = NewShell]]
                  /\ UNCHANGED pool_lock
             ELSE /\ pool_lock_free
                  /\ pool_lock' = t
                  /\ UNCHANGED made
                  /\ th' = [th EXCEPT ![t] = [Idle EXCEPT !.pc = "lookup", !.op = op,
                                                           !.sid = sid, !.jid = jid]]
    /\ UNCHANGED <<shells, background_jobs, session_lock, shell_connected, shell_alive, sent>>
    /\ UNCHANGED <<session_vars, unit_vars>>

\* a variant of the test of line 142 that takes every handshake for a success
handshake_any(status) == TRUE

\* start_shell, line 142: the statuses of connect that register the session
handshake_ok(status) == status \in {"CONNECTED", "ALREADY_CONNECTED"}

\* start_shell, lines 136-147: the Shell connects, under no lock that another
\* thread can want; Shell.connect returns CONNECTED, or an ERROR after
\* _force_close
StartConnect(t) ==
    /\ th[t].pc = "connect"
    /\ \E status \in {"CONNECTED", "ERROR"} :
          /\ shell_connected' = [shell_connected EXCEPT ![th[t].sh] = (status = "CONNECTED")]
          /\ shell_alive' = [shell_alive EXCEPT ![th[t].sh] = (status = "CONNECTED")]
          /\ IF handshake_ok(status) THEN Goto(t, "register") ELSE Done(t, "start_failed")
    /\ UNCHANGED <<shells, background_jobs, pool_lock, session_lock, made, sent>>
    /\ UNCHANGED <<session_vars, unit_vars>>

\* start_shell, lines 143-144
Register(t) ==
    /\ th[t].pc = "register"
    /\ pool_lock_free
    /\ shells' = (th[t].sid :> th[t].sh) @@ shells
    /\ Done(t, "connected")
    /\ UNCHANGED <<background_jobs, pool_lock, session_lock, shell_connected, shell_alive,
                   made, sent>>
    /\ UNCHANGED <<session_vars, unit_vars>>

\* the operation returns its not-found error and releases the pool lock
NotFound(t) ==
    /\ pool_lock' = "free"
    /\ Done(t, "not_found")
    /\ UNCHANGED <<shells, background_jobs, session_lock, shell_connected, shell_alive,
                   made, sent>>

\* where an operation goes on once it has its Shell and has released the pool lock
AfterLookup(op) ==
    CASE op = "run" -> "session_wait"
      [] op \in {"run_batch", "background"} -> "alive_check"
      [] op = "status" -> "status"
      [] OTHER -> "io"

Runs(op) == IF op = "run_batch" THEN MaxBatch ELSE 1

\* once the Shell object is held the id is used again only by run_background,
\* which stores it with the job (line 364)
Kept(op, sid) == IF op = "background" THEN sid ELSE "none"

\* the lookup of run_in_shell, run_commands_batch, run_background,
\* get_shell_status, peek_shell_output, send_to_shell, send_control_to_shell
LookupSession(t) ==
    /\ th[t].pc = "lookup"
    /\ th[t].op \in SessionOps \ {"stop"}
    /\ IF ~known(th[t].sid)
       THEN NotFound(t)
       ELSE /\ pool_lock' = "free"
            /\ th' = [th EXCEPT ![t].pc = AfterLookup(th[t].op),
                                 ![t].sid = Kept(th[t].op, th[t].sid),
                                 ![t].sh = shells[th[t].sid],
                                 ![t].left = Runs(th[t].op)]
            /\ UNCHANGED <<shells, background_jobs, session_lock, shell_connected,
                           shell_alive, made, sent>>
    /\ UNCHANGED <<session_vars, unit_vars>>

\* stop_shell, lines 151-155: the shell is popped, and disconnect is called
\* inside the with block
LookupStop(t) ==
    /\ th[t].pc = "lookup"
    /\ th[t].op = "stop"
    /\ IF ~known(th[t].sid)
       THEN NotFound(t)
       ELSE /\ shells' = pop(shells, th[t].sid)
            /\ th' = [th EXCEPT ![t].pc = "disconnect_wait",
                                 ![t].sid = Kept(th[t].op, th[t].sid),
                                 ![t].sh = shells[th[t].sid]]
            /\ UNCHANGED <<background_jobs, pool_lock, session_lock, shell_connected,
                           shell_alive, made, sent>>
    /\ UNCHANGED <<session_vars, unit_vars>>

\* check_background_job, lines 380-387
LookupJob(t) ==
    /\ th[t].pc = "lookup"
    /\ th[t].op = "check"
    /\ IF ~known_job(th[t].jid)
       THEN NotFound(t)
       ELSE /\ pool_lock' = "free"
            /\ IF known(background_jobs[th[t].jid])
               THEN th' = [th EXCEPT ![t].pc = "session_wait",
                                     ![t].sh = shells[background_jobs[th[t].jid]],
                                     ![t].left = CheckRuns]
               ELSE Done(t, "shell_gone")
            /\ UNCHANGED <<shells, background_jobs, session_lock, shell_connected,
                           shell_alive, made, sent>>
    /\ UNCHANGED <<session_vars, unit_vars>>

\* list_shells, lines 440-444, and stop_all, lines 467-469: the loop over the
\* registry begins, inside the with block
LookupAll(t) ==
    /\ th[t].pc = "lookup"
    /\ th[t].op \in {"list", "stop_all"}
    /\ IF th[t].op = "list" /\ Registered = {}
       THEN /\ pool_lock' = "free"
            /\ Done(t, "no_shells")
       ELSE /\ th' = [th EXCEPT ![t].pc = th[t].op, ![t].todo = Registered]
            /\ UNCHANGED pool_lock
    /\ UNCHANGED <<shells, background_jobs, session_lock, shell_connected, shell_alive,
                   made, sent>>
    /\ UNCHANGED <<session_vars, unit_vars>>

\* run_commands_batch line 191, run_background line 346
AliveCheck(t) ==
    /\ th[t].pc = "alive_check"
    /\ IF shell_is_alive(th[t].sh) THEN Goto(t, "session_wait") ELSE Done(t, "error")
    /\ UNCHANGED <<shells, background_jobs, pool_lock, session_lock, shell_connected,
                   shell_alive, made, sent>>
    /\ UNCHANGED <<session_vars, unit_vars>>

\* what run_command returns to the pool: the status and exit code of the
\* result, and whether the text STATUS: SUCCESS occurs in the command or in
\* what the command printed.  ERROR results hold neither
RunResults ==
    {[status |-> st[1], exit_code |-> st[2], prints_success |-> p] :
        st \in {<<"SUCCESS", "0">>, <<"COMMAND_FAILED", "1">>, <<"TIMEOUT", "none">>},
        p \in BOOLEAN}
    \cup {[status |-> "ERROR", exit_code |-> "none", prints_success |-> FALSE]}

\* the result of a run_command that returned before it sent the command
NotRun == [status |-> "ERROR", exit_code |-> "none", prints_success |-> FALSE]

\* run_background, line 353: "STATUS: SUCCESS" in result or
\* "STATUS: COMPLETED" in result
launch_ok(result) == result.status \in {"SUCCESS", "COMPLETED"} \/ result.prints_success

\* a run_command of the operation has returned; a thread on its way to
\* register a job keeps the status its launch command returned
RunDone(t, result) ==
    IF th[t].op \in {"run_batch", "check"} /\ th[t].left > 1
    THEN th' = [th EXCEPT ![t].pc = "session_wait", ![t].left = th[t].left - 1]
    ELSE IF th[t].op = "background" /\ launch_ok(result)
    THEN th' = [th EXCEPT ![t].pc = "register_job", ![t].result = result.status]
    ELSE Done(t, result.status)

\* Shell.run_command, lines 384-399 up to the sendline of verify_responsive
RunAcquire(t) ==
    /\ th[t].pc = "session_wait"
    /\ session_lock_free(th[t].sh)
    /\ IF shell_is_alive(th[t].sh)
       THEN /\ session_lock' = [session_lock EXCEPT ![th[t].sh] = t]
            /\ sent' = Written(th[t].sh)
            /\ Goto(t, "probe")
       ELSE /\ RunDone(t, NotRun)
            /\ UNCHANGED <<session_lock, sent>>
    /\ UNCHANGED <<shells, background_jobs, pool_lock, shell_connected, shell_alive, made>>
    /\ UNCHANGED <<session_vars, unit_vars>>

\* lines 398-407: the probe returns; the wrapped command is sent
RunProbeReturns(t) ==
    /\ th[t].pc = "probe"
    /\ \/ /\ sent' = Written(th[t].sh)
          /\ Goto(t, "loop")
          /\ UNCHANGED session_lock
       \/ /\ session_lock' = [session_lock EXCEPT ![th[t].sh] = "free"]
          /\ RunDone(t, NotRun)
          /\ UNCHANGED sent
    /\ UNCHANGED <<shells, background_jobs, pool_lock, shell_connected, shell_alive, made>>
    /\ UNCHANGED <<session_vars, unit_vars>>

\* lines 426-608: the loop (and the recovery protocol) ends and the result
\* is returned
RunReturns(t) ==
    /\ th[t].pc = "loop"
    /\ session_lock' = [session_lock EXCEPT ![th[t].sh] = "free"]
    /\ \E result \in RunResults : RunDone(t, result)
    /\ UNCHANGED <<shells, background_jobs, pool_lock, shell_connected, shell_alive, made,
                   sent>>
    /\ UNCHANGED <<session_vars, unit_vars>>

\* run_background, lines 371-372
RegisterJob(t) ==
    /\ th[t].pc = "register_job"
    /\ pool_lock_free
    /\ background_jobs' = (th[t].jid :> th[t].sid) @@ background_jobs
    /\ Done(t, "started")
    /\ UNCHANGED <<shells, pool_lock, session_lock, shell_connected, shell_alive, made, sent>>
    /\ UNCHANGED <<session_vars, unit_vars>>

\* Shell.get_status, lines 616-617: the probe is sent
get_status(t, probing, after) ==
    IF shell_is_alive(th[t].sh)
    THEN /\ sent' = Written(th[t].sh)
         /\ th' = [th EXCEPT ![t].pc = probing]
    ELSE /\ after
         /\ UNCHANGED sent

\* get_shell_status, line 406
Status(t) ==
    /\ th[t].pc = "status"
    /\ get_status(t, "status_probe", Done(t, "info"))
    /\ UNCHANGED <<shells, background_jobs, pool_lock, session_lock, shell_connected,
                   shell_alive, made>>
    /\ UNCHANGED <<session_vars, unit_vars>>

StatusProbeReturns(t) ==
    /\ th[t].pc = "status_probe"
    /\ Done(t, "info")
    /\ UNCHANGED <<shells, background_jobs, pool_lock, session_lock, shell_connected,
                   shell_alive, made, sent>>
    /\ UNCHANGED <<session_vars, unit_vars>>

\* Shell.peek_output, send_input, send_control: the read or the write begins
Io(t) ==
    /\ th[t].pc = "io"
    /\ IF shell_is_alive(th[t].sh)
       THEN /\ sent' = IF th[t].op = "peek" THEN sent ELSE Written(th[t].sh)
            /\ Goto(t, "io_busy")
       ELSE /\ Done(t, "error")
            /\ UNCHANGED sent
    /\ UNCHANGED <<shells, background_jobs, pool_lock, session_lock, shell_connected,
                   shell_alive, made>>
    /\ UNCHANGED <<session_vars, unit_vars>>

IoReturns(t) ==
    /\ th[t].pc = "io_busy"
    /\ Done(t, "done")
    /\ UNCHANGED <<shells, background_jobs, pool_lock, session_lock, shell_connected,
                   shell_alive, made, sent>>
    /\ UNCHANGED <<session_vars, unit_vars>>

\* Shell.disconnect, lines 128-141, called by stop_shell (line 156) and by
\* stop_all (line 470) inside their with blocks
Disconnect(t) ==
    /\ th[t].pc = "disconnect_wait"
    /\ session_lock_free(th[t].sh)
    /\ sent' = IF shell_alive[th[t].sh] THEN Written(th[t].sh) ELSE sent
    /\ shell_connected' = [shell_connected EXCEPT ![th[t].sh] = FALSE]
    /\ shell_alive' = [shell_alive EXCEPT ![th[t].sh] = FALSE]
    /\ IF th[t].op = "stop"
       THEN /\ pool_lock' = "free"
            /\ Done(t, "disconnected")
       ELSE /\ th' = [th EXCEPT ![t].pc = "stop_all", ![t].todo = th[t].todo \ {th[t].sh}]
            /\ UNCHANGED pool_lock
    /\ UNCHANGED <<shells, background_jobs, session_lock, made>>
    /\ UNCHANGED <<session_vars, unit_vars>>

\* stop_all, lines 469-473
StopAllStep(t) ==
    /\ th[t].pc = "stop_all"
    /\ IF th[t].todo = {}
       THEN /\ shells' = NoEntries
            /\ background_jobs' = NoEntries
            /\ pool_lock' = "free"
            /\ Done(t, "stopped")
       ELSE /\ \E s \in th[t].todo : th' = [th EXCEPT ![t].pc = "disconnect_wait", ![t].sh = s]
            /\ UNCHANGED <<shells, background_jobs, pool_lock>>
    /\ UNCHANGED <<session_lock, shell_connected, shell_alive, made, sent>>
    /\ UNCHANGED <<session_vars, unit_vars>>

\* list_shells, lines 445-450
ListStep(t) ==
    /\ th[t].pc = "list"
    /\ IF th[t].todo = {}
       THEN /\ pool_lock' = "free"
            /\ Done(t, "found")
            /\ UNCHANGED sent
       ELSE /\ \E s \in th[t].todo :
                  IF shell_is_alive(s)
                  THEN /\ sent' = Written(s)
                       /\ th' = [th EXCEPT ![t].pc = "list_probe", ![t].sh = s]
                  ELSE /\ th' = [th EXCEPT ![t].todo = th[t].todo \ {s}]
                       /\ UNCHANGED sent
            /\ UNCHANGED pool_lock
    /\ UNCHANGED <<shells, background_jobs, session_lock, shell_connected, shell_alive, made>>
    /\ UNCHANGED <<session_vars, unit_vars>>

ListProbeReturns(t) ==
    /\ th[t].pc = "list_probe"
    /\ th' = [th EXCEPT ![t].pc = "list", ![t].todo = th[t].todo \ {th[t].sh},
                        ![t].sh = "none"]
    /\ UNCHANGED <<shells, background_jobs, pool_lock, session_lock, shell_connected,
                   shell_alive, made, sent>>
    /\ UNCHANGED <<session_vars, unit_vars>>

\* the process of a Shell dies
ShellDies(s) ==
    /\ shell_alive[s]
    /\ shell_alive' = [shell_alive EXCEPT ![s] = FALSE]
    /\ UNCHANGED <<shells, background_jobs, pool_lock, session_lock, shell_connected, made,
                   sent, th>>
    /\ UNCHANGED <<session_vars, unit_vars>>

(* ---------------------------------------------------------------------- *)
(* One Shell object: connect and disconnect called at any time              *)
(* ---------------------------------------------------------------------- *)

MaxConnects == 3
MaxNow == 3

MaxDisconnects == 2

\* what the device does in a handshake
\*   prompt  the first expect: a prompt comes in time ("prompt"), or after the
\*           empty line ("late"), or not at all ("none"); adb ends ("eof");
\*           spawn raises ("nospawn")
\*   su      the expect after su: the root prompt ("root"), or one of the
\*           other patterns, or the timeout, or the end of the stream
\*   id      the two expects after id: uid=0 and a prompt ("uid0"), no uid=0
\*           ("other"), or uid=0 and no prompt after it ("noprompt")
Devices ==
    [prompt : {"prompt", "late", "none", "eof", "nospawn"},
     su : {"root", "denied", "not found", "waiting", "timeout", "eof"},
     id : {"uid0", "other", "noprompt"}]

NoDevice == [prompt |-> "none", su |-> "eof", id |-> "other"]

\* the ERROR of a su that did not give the root prompt (lines 87-101)
su_reason(su) ==
    CASE su = "denied" -> "Root access denied."
      [] su = "not found" -> "su not found."
      [] su = "waiting" -> "Waiting for root permission."
      [] su = "timeout" -> "Timeout during su."
      [] OTHER -> "Shell died during su."

Handshake(status, reason, lines) == [status |-> status, reason |-> reason, sent |-> lines]

\* a variant of the escalation that trusts the root prompt
escalate_unverified(d, lines) ==
    IF d.su = "root" THEN Handshake("CONNECTED", "none", lines \o <<"su", "id">>)
    ELSE Handshake("ERROR", su_reason(d.su), lines \o <<"su">>)

\* lines 68-101: su, and id on the root prompt
escalate(d, lines) ==
    IF d.su = "root"
    THEN IF d.id = "uid0" THEN Handshake("CONNECTED", "none", lines \o <<"su", "id">>)
         ELSE Handshake("ERROR", "su succeeded but uid != 0.", lines \o <<"su", "id">>)
    ELSE Handshake("ERROR", su_reason(d.su), lines \o <<"su">>)

\* lines 45-114: the handshake of a Shell of this type with a device that
\* does d: its status, its reason and the lines it sent
handshake(type, d) ==
    CASE d.prompt = "nospawn" -> Handshake("ERROR", "exception", << >>)
      [] d.prompt = "eof" -> Handshake("ERROR", "ADB connection failed.", << >>)
      [] d.prompt = "none" -> Handshake("ERROR", "Could not detect shell prompt.", <<"">>)
      [] OTHER ->
           LET lines == IF d.prompt = "late" THEN <<"">> ELSE << >>
           IN IF type = "root" THEN escalate(d, lines)
              ELSE Handshake("CONNECTED", "none", lines)

\* the part of what the device does that a handshake of this type came to see
seen(type, d) ==
    [prompt |-> d.prompt,
     su |-> IF type = "root" /\ d.prompt \in {"prompt", "late"} THEN d.su ELSE "eof",
     id |-> IF type = "root" /\ d.prompt \in {"prompt", "late"} /\ d.su = "root"
            THEN d.id ELSE "other"]

\* Shell.__init__, lines 29-35
HandleInit ==
    /\ process = 0
    /\ connect_calls = 0
    /\ connect_result = "none"
    /\ time_now = 0
    /\ last_activity = 0
    /\ shell_type \in {"root", "user"}
    /\ device = NoDevice
    /\ connect_reason = "none"
    /\ handle_sent = << >>
    /\ disconnect_calls = 0
    /\ disconnect_result = "none"

\* a variant of the test of line 42 that never finds the session connected
already_connected_never == FALSE

\* line 42: self._is_connected and self._process and self._process.isalive()
already_connected == is_connected /\ process # 0 /\ process_alive

\* Shell.connect, lines 39-114, the handshake taken as one step.  A failed
\* handshake ends in _force_close (lines 116-124)
ShellConnect ==
    /\ pc = "idle"
    /\ connect_calls < MaxConnects
    /\ connect_calls' = connect_calls + 1
    /\ IF already_connected
       THEN /\ connect_result' = "ALREADY_CONNECTED"
            /\ connect_reason' = "none"
            /\ handle_sent' = << >>
            /\ UNCHANGED <<process, last_activity, is_connected, rstate, chan, inq, device,
                           su_shell>>
       ELSE /\ \E d \in Devices :
                 LET h == handshake(shell_type, d) IN
                 /\ device' = seen(shell_type, d)
                 /\ connect_result' = h.status
                 /\ connect_reason' = h.reason
                 /\ handle_sent' = h.sent
                 /\ IF h.status = "CONNECTED"
                    THEN /\ process' = connect_calls'
                         /\ rstate' = "prompt"
                         /\ is_connected' = TRUE
                         /\ su_shell' = (shell_type = "root")
                         /\ last_activity' = time_now
                    ELSE /\ process' = 0
                         /\ rstate' = "none"
                         /\ is_connected' = FALSE
                         /\ su_shell' = FALSE
                         /\ UNCHANGED last_activity
            /\ chan' = << >>
            /\ inq' = << >>
    /\ UNCHANGED <<cfg, pc, call_vars, loop_vars, rec_vars, results, prog_vars, echo_on,
                   truth_vars, time_now, shell_type, disconnect_calls, disconnect_result>>
    /\ UNCHANGED <<pool_vars, cleanup_vars, batch_vars, check_vars, cwd_vars>>

\* lines 131-135: the exit lines of a disconnect
exit_lines(type) == IF type = "root" THEN <<"exit", "exit">> ELSE <<"exit">>

\* a variant of disconnect's test of line 129 that takes a process to be there
has_process_always(p) == TRUE

\* line 129: if self._process
has_process(p) == p # 0

\* Shell.disconnect, lines 126-141: with a process, the exit lines and close,
\* or _force_close when one of them raises; then the fields are cleared
ShellDisconnect ==
    /\ pc = "idle"
    /\ disconnect_calls < MaxDisconnects
    /\ disconnect_calls' = disconnect_calls + 1
    /\ disconnect_result' = "DISCONNECTED"
    /\ IF has_process(process)
       THEN \E n \in 0..Len(exit_lines(shell_type)) :
               /\ n < Len(exit_lines(shell_type)) => ~process_alive
               /\ handle_sent' = SubSeq(exit_lines(shell_type), 1, n)
       ELSE handle_sent' = << >>
    /\ process' = 0
    /\ is_connected' = FALSE
    /\ rstate' = IF process # 0 THEN "none" ELSE rstate
    /\ su_shell' = (su_shell /\ process = 0)
    /\ chan' = << >>
    /\ inq' = << >>
    /\ UNCHANGED <<cfg, pc, call_vars, loop_vars, rec_vars, results, prog_vars, echo_on,
                   truth_vars, connect_calls, connect_result, time_now, last_activity,
                   shell_type, device, connect_reason>>
    /\ UNCHANGED <<pool_vars, cleanup_vars, batch_vars, check_vars, cwd_vars>>

\* a command completes on the session: line 585
Activity ==
    /\ pc = "idle"
    /\ is_alive
    /\ last_activity # time_now
    /\ last_activity' = time_now
    /\ UNCHANGED <<session_vars, pool_vars, process, connect_calls, connect_result, time_now,
                   shell_type, device, connect_reason, handle_sent, disconnect_calls,
                   disconnect_result, cleanup_vars, batch_vars, check_vars, cwd_vars>>

\* time passes
Tick ==
    /\ time_now < MaxNow
    /\ time_now' = time_now + 1
    /\ UNCHANGED <<session_vars, pool_vars, process, connect_calls, connect_result,
                   last_activity, shell_type, device, connect_reason, handle_sent,
                   disconnect_calls, disconnect_result, cleanup_vars, batch_vars, check_vars, cwd_vars>>

(* ---------------------------------------------------------------------- *)
(* The end of a completed run: what was read, and the result made of it     *)
(* ---------------------------------------------------------------------- *)

MaxRaw == 4

\* the lines a call can have read when it sees its END_TOKEN
RawLines == {"echo", "out", "exit0", "exit1", "end", "oldmark", "oldout"} \cup MimicLines

RawOutputs == UNION {[1..n -> RawLines] : n \in 0..MaxRaw}

CleanupInit == raw_output \in RawOutputs /\ completion = << >>

\* lines 525-602
Cleanup ==
    /\ completion = << >>
    /\ marker_in(raw_output)
    /\ completion' = <<CompletionResult(raw_output)>>
    /\ UNCHANGED <<session_vars, pool_vars, handle_vars, raw_output, batch_vars, check_vars, cwd_vars>>

(* ---------------------------------------------------------------------- *)
(* run_commands_batch on a registered session                              *)
(* ---------------------------------------------------------------------- *)

MaxEntries == 3

\* the entries of a commands list: a command as text, a mapping with a
\* command, an empty text or a mapping with no command, a mapping whose
\* timeout_seconds is not a number, a mapping whose command is not text, and an
\* entry that is neither text nor a mapping
BatchEntries == {"text", "mapping", "empty", "badtimeout", "nocmdtext", "number"}

\* the commands argument: a list, or no list
BatchInputs == UNION {[1..n -> BatchEntries] : n \in 0..MaxEntries} \cup {<<"missing">>}

\* a timeout that is not a number raises in the loop of run_command (line 429),
\* and the handler of line 607 returns an ERROR
RunResultsOf(e) ==
    IF e = "badtimeout" THEN {r \in RunResults : r.status = "ERROR"} ELSE RunResults

\* line 221: "STATUS: SUCCESS" in result or "EXIT_CODE: 0" in result
is_success(result) ==
    result.status = "SUCCESS" \/ result.exit_code = "0" \/ result.prints_success

BatchInit ==
    /\ commands \in BatchInputs
    /\ stop_on_error \in BOOLEAN
    /\ batch_pc = "idle"
    /\ entry = 0
    /\ succeeded = 0
    /\ failed = 0
    /\ batch_results = << >>
    /\ batch_return = << >>
    /\ ran = << >>

\* lines 191-197, the session found: it is not alive, or the tallies start;
\* len(commands) raises when there is no list
BatchCall ==
    /\ batch_pc = "idle"
    /\ \E alive \in BOOLEAN :
          IF ~alive
          THEN /\ batch_return' = <<[status |-> "ERROR", succeeded |-> 0, total |-> 0,
                                     failed |-> 0]>>
               /\ batch_pc' = "returned"
               /\ UNCHANGED entry
          ELSE /\ batch_pc' = IF commands = <<"missing">> THEN "raised" ELSE "loop"
               /\ entry' = 1
               /\ UNCHANGED batch_return
    /\ UNCHANGED <<commands, stop_on_error, succeeded, failed, batch_results, ran>>
    /\ UNCHANGED <<session_vars, pool_vars, handle_vars, cleanup_vars, check_vars, cwd_vars>>

\* lines 199-246: one entry of the list
BatchEntry ==
    /\ batch_pc = "loop"
    /\ entry <= Len(commands)
    /\ LET e == commands[entry] IN
       IF e = "number"
       THEN \* cmd_spec.get raises (line 207)
            /\ batch_pc' = "raised"
            /\ UNCHANGED <<entry, succeeded, failed, batch_results, ran>>
       ELSE IF e = "empty"
       THEN /\ batch_results' = Append(batch_results, [entry |-> entry, says |-> "SKIPPED"])
            /\ entry' = entry + 1
            /\ UNCHANGED <<batch_pc, succeeded, failed, ran>>
       ELSE IF e = "nocmdtext"
       THEN \* command.strip raises in run_command (line 385), outside its try
            /\ batch_pc' = "raised"
            /\ UNCHANGED <<entry, succeeded, failed, batch_results, ran>>
       ELSE \E result \in RunResultsOf(e) :
               /\ ran' = Append(ran, [entry |-> entry, result |-> result])
               /\ succeeded' = IF is_success(result) THEN succeeded + 1 ELSE succeeded
               /\ failed' = IF is_success(result) THEN failed ELSE failed + 1
               /\ IF stop_on_error /\ ~is_success(result)
                  THEN /\ batch_results' =
                              batch_results \o <<[entry |-> entry, says |-> "FAILED"],
                                                 [entry |-> entry, says |-> "STOPPED"]>>
                       /\ batch_pc' = "break"
                       /\ UNCHANGED entry
                  ELSE /\ batch_results' =
                              Append(batch_results,
                                     [entry |-> entry,
                                      says |-> IF is_success(result) THEN "SUCCESS"
                                               ELSE "FAILED"])
                       /\ entry' = entry + 1
                       /\ UNCHANGED batch_pc
    /\ UNCHANGED <<commands, stop_on_error, batch_return>>
    /\ UNCHANGED <<session_vars, pool_vars, handle_vars, cleanup_vars, check_vars, cwd_vars>>

\* lines 248-252: the header and the results
BatchReturn ==
    /\ batch_pc = "break" \/ (batch_pc = "loop" /\ entry > Len(commands))
    /\ batch_return' = <<[status |-> "BATCH RESULTS", succeeded |-> succeeded,
                          total |-> Len(commands), failed |-> failed]>>
    /\ batch_pc' = "returned"
    /\ UNCHANGED <<commands, stop_on_error, entry, succeeded, failed, batch_results, ran>>
    /\ UNCHANGED <<session_vars, pool_vars, handle_vars, cleanup_vars, check_vars, cwd_vars>>

(* ---------------------------------------------------------------------- *)
(* check_background_job for a job                                           *)
(* ---------------------------------------------------------------------- *)

MaxChecks == 2

\* what the run_command of line 393 returns: its status, and what the search
\* did: it found the job ("found"), it found nothing and echo printed
\* COMPLETED ("absent"), or it did not come to an end ("none")
SearchResults ==
    {[status |-> st, search |-> f] : st \in {"SUCCESS", "COMPLETED"}, f \in {"found", "absent"}}
    \cup {[status |-> st, search |-> "none"] :
             st \in {"COMPLETED", "TIMEOUT", "UNCERTAIN", "ERROR"}}

\* "COMPLETED" in check_result: the status line says COMPLETED (the exit code
\* is unknown), the output holds what echo printed, or the result quotes the
\* command, which holds the word (lines 434, 462, 505)
holds_completed(result) ==
    \/ result.status = "COMPLETED"
    \/ result.search = "absent"
    \/ result.status \in {"TIMEOUT", "WAITING_FOR_INPUT", "UNCERTAIN"}

\* line 395
is_running(check_result) == ~holds_completed(check_result)

NoSearch == [status |-> "none", search |-> "none"]

CheckInit ==
    /\ check_pc = "idle"
    /\ checks = 0
    /\ job_runs = 0
    /\ read_result = "none"
    /\ search_result = NoSearch
    /\ check_return = << >>

\* lines 380-387: the job is not registered, its shell is not, or both are
CheckCall ==
    /\ check_pc = "idle"
    /\ checks < MaxChecks
    /\ checks' = checks + 1
    /\ read_result' = "none"
    /\ search_result' = NoSearch
    /\ \E lookup \in {"Job not found.", "no longer exists.", "found"} :
          IF lookup = "found"
          THEN check_pc' = "read" /\ check_return' = << >>
          ELSE check_pc' = "idle" /\ check_return' = <<[status |-> "ERROR", reason |-> lookup]>>
    /\ UNCHANGED job_runs
    /\ UNCHANGED <<session_vars, pool_vars, handle_vars, cleanup_vars, batch_vars, cwd_vars>>

\* line 390: the output file is read
CheckRead ==
    /\ check_pc = "read"
    /\ job_runs' = job_runs + 1
    /\ \E result \in RunResults : read_result' = result.status
    /\ check_pc' = "search"
    /\ UNCHANGED <<checks, search_result, check_return>>
    /\ UNCHANGED <<session_vars, pool_vars, handle_vars, cleanup_vars, batch_vars, cwd_vars>>

\* lines 393-397: the process table is searched, and the check returns
CheckSearch ==
    /\ check_pc = "search"
    /\ job_runs' = job_runs + 1
    /\ \E check_result \in SearchResults :
          /\ search_result' = check_result
          /\ check_return' = <<[status |-> IF is_running(check_result) THEN "RUNNING"
                                            ELSE "COMPLETED",
                                reason |-> "none"]>>
    /\ check_pc' = "idle"
    /\ UNCHANGED <<checks, read_result>>
    /\ UNCHANGED <<session_vars, pool_vars, handle_vars, cleanup_vars, batch_vars, cwd_vars>>

(* ---------------------------------------------------------------------- *)
(* Working directories: ShellManager.run_in_shell and run_commands_batch   *)
(* ---------------------------------------------------------------------- *)

MaxCwdCalls == 2

\* no working directory is given (None, or the empty string: lines 166, 217)
NoDir == ""

\* the directory of a fresh remote shell
HomeDir == "/"

\* directories of the device, and one that it does not have
ExistingDirs == {"/tmp", "/sdcard"}

Dirs == ExistingDirs \cup {"/nodir"}

\* the commands of the calls; none of them changes the directory itself
CwdCommands == {CmdEcho, CmdRm, CmdSleep, CmdTop, CmdCatFile}

\* f"cd {working_directory} && {command}" (manager.py 166-167, 217), in words
with_cwd(working_directory, cmd) ==
    IF working_directory # NoDir
    THEN <<"cd", working_directory, "&&">> \o cmd
    ELSE cmd

\* the line is a cd, && and a rest
IsCdAnd(line) == Len(line) >= 3 /\ line[1] = "cd" /\ line[3] = "&&"

\* the directory of the remote shell once it has run the line: a cd of the
\* line is a builtin of the session's own shell
dir_after(dir, line) ==
    IF IsCdAnd(line) /\ line[2] \in ExistingDirs THEN line[2] ELSE dir

\* the rest behind && runs when the cd succeeded
rest_runs(line) == IsCdAnd(line) => line[2] \in ExistingDirs

NoGiven == [command |-> << >>, working_directory |-> NoDir, via |-> "none"]

CwdInit ==
    /\ cwd_pc = "idle"
    /\ cwd_calls = 0
    /\ given = NoGiven
    /\ actual_cmd = << >>
    /\ warning = FALSE
    /\ slow_class = FALSE
    /\ session_dir = HomeDir
    /\ executed = << >>

\* the call of run_command with the composed command (shell.py 384-407): the
\* advisory and the classification are computed from it, and it is typed
RunCommandOn(line) ==
    /\ actual_cmd' = line
    /\ warning' = check_dangerous_command(line)
    /\ slow_class' = is_slow_silent_command(line)
    /\ cwd_pc' = "typed"

\* run_in_shell on a registered session (manager.py 158-169)
RunInShell ==
    /\ cwd_pc = "idle"
    /\ cwd_calls < MaxCwdCalls
    /\ cwd_calls' = cwd_calls + 1
    /\ \E cmd \in CwdCommands, working_directory \in Dirs \cup {NoDir} :
          /\ given' = [command |-> cmd, working_directory |-> working_directory,
                       via |-> "run"]
          /\ RunCommandOn(with_cwd(working_directory, cmd))
    /\ UNCHANGED <<session_dir, executed>>
    /\ UNCHANGED <<session_vars, pool_vars, handle_vars, cleanup_vars, batch_vars, check_vars>>

\* one entry of run_commands_batch (manager.py 199-218)
BatchEntryCwd ==
    /\ cwd_pc = "idle"
    /\ cwd_calls < MaxCwdCalls
    /\ cwd_calls' = cwd_calls + 1
    /\ \E cmd \in CwdCommands, cwd \in Dirs \cup {NoDir} :
          /\ given' = [command |-> cmd, working_directory |-> cwd, via |-> "batch"]
          /\ RunCommandOn(with_cwd(cwd, cmd))
    /\ UNCHANGED <<session_dir, executed>>
    /\ UNCHANGED <<session_vars, pool_vars, handle_vars, cleanup_vars, batch_vars, check_vars>>

\* the remote shell runs the typed line, and the call returns
RemoteRuns ==
    /\ cwd_pc = "typed"
    /\ session_dir' = dir_after(session_dir, actual_cmd)
    /\ executed' = Append(executed, [command |-> given.command,
                                     working_directory |-> given.working_directory,
                                     before |-> session_dir,
                                     dir |-> session_dir',
                                     ran |-> rest_runs(actual_cmd)])
    /\ cwd_pc' = "idle"
    /\ UNCHANGED <<cwd_calls, given, actual_cmd, warning, slow_class>>
    /\ UNCHANGED <<session_vars, pool_vars, handle_vars, cleanup_vars, batch_vars, check_vars>>

(* ---------------------------------------------------------------------- *)
(* Specifications                                                          *)
(* ---------------------------------------------------------------------- *)

vars == <<session_vars, pool_vars, unit_vars>>

\* no batch is called
NoBatch ==
    /\ commands = << >>
    /\ stop_on_error = FALSE
    /\ batch_pc = "returned"
    /\ entry = 0
    /\ succeeded = 0
    /\ failed = 0
    /\ batch_results = << >>
    /\ batch_return = << >>
    /\ ran = << >>

\* no check is called
NoCheck ==
    /\ check_pc = "idle"
    /\ checks = MaxChecks
    /\ job_runs = 0
    /\ read_result = "none"
    /\ search_result = NoSearch
    /\ check_return = << >>

\* no call with a working directory is made
NoCwd ==
    /\ cwd_pc = "idle"
    /\ cwd_calls = MaxCwdCalls
    /\ given = NoGiven
    /\ actual_cmd = << >>
    /\ warning = FALSE
    /\ slow_class = FALSE
    /\ session_dir = HomeDir
    /\ executed = << >>

\* the Shell of the other specifications is a root shell
NoHandle == HandleInit /\ shell_type = "root"

UnitInit == NoHandle /\ raw_output = << >> /\ completion = << >> /\ NoBatch /\ NoCheck /\ NoCwd

Init == InitSession(CfgRun, BOOLEAN) /\ PoolInit /\ UnitInit

InitLong == InitSession(CfgLong, BOOLEAN) /\ PoolInit /\ UnitInit

InitPool == InitSession(CfgRun, {FALSE}) /\ PoolInit /\ UnitInit

Next ==
    \/ Connect
    \/ Call
    \/ ProbeReturns
    \/ Poll
    \/ HardTimeout
    \/ RecStage
    \/ RecProbeReturns
    \/ ShellExec
    \/ ProgPrint
    \/ ProgFinish
    \/ Die

Spec == Init /\ [][Next]_vars

NextPool ==
    \/ \E t \in Threads : Begin(t)
    \/ \E t \in Threads : StartConnect(t)
    \/ \E t \in Threads : Register(t)
    \/ \E t \in Threads : LookupSession(t)
    \/ \E t \in Threads : LookupStop(t)
    \/ \E t \in Threads : LookupJob(t)
    \/ \E t \in Threads : LookupAll(t)
    \/ \E t \in Threads : AliveCheck(t)
    \/ \E t \in Threads : RunAcquire(t)
    \/ \E t \in Threads : RunProbeReturns(t)
    \/ \E t \in Threads : RunReturns(t)
    \/ \E t \in Threads : RegisterJob(t)
    \/ \E t \in Threads : Status(t)
    \/ \E t \in Threads : StatusProbeReturns(t)
    \/ \E t \in Threads : Io(t)
    \/ \E t \in Threads : IoReturns(t)
    \/ \E t \in Threads : Disconnect(t)
    \/ \E t \in Threads : StopAllStep(t)
    \/ \E t \in Threads : ListStep(t)
    \/ \E t \in Threads : ListProbeReturns(t)
    \/ \E s \in ShellObjects : ShellDies(s)

SpecPool == InitPool /\ [][NextPool]_vars

\* the steps of a thread inside a pool operation
Steps(t) ==
    \/ StartConnect(t) \/ Register(t)
    \/ LookupSession(t) \/ LookupStop(t) \/ LookupJob(t) \/ LookupAll(t)
    \/ AliveCheck(t)
    \/ RunAcquire(t) \/ RunProbeReturns(t) \/ RunReturns(t) \/ RegisterJob(t)
    \/ Status(t) \/ StatusProbeReturns(t) \/ Io(t) \/ IoReturns(t)
    \/ Disconnect(t) \/ StopAllStep(t) \/ ListStep(t) \/ ListProbeReturns(t)

\* the pool after a start_shell whose handshake failed: one Shell object is
\* left to make
InitPoolOne ==
    /\ InitSession(CfgRun, {FALSE}) /\ UnitInit
    /\ shells = NoEntries
    /\ background_jobs = NoEntries
    /\ pool_lock = "free"
    /\ session_lock = [s \in ShellObjects |-> "free"]
    /\ shell_connected = [s \in ShellObjects |-> FALSE]
    /\ shell_alive = [s \in ShellObjects |-> FALSE]
    /\ made = {NewShellOf({})}
    /\ sent = [s \in ShellObjects |-> 0]
    /\ th = [t \in Threads |-> Idle]

\* every thread inside an operation runs, and a thread that waits for a
\* lock gets it when it is free again and again
SpecPoolFair == InitPoolOne /\ [][NextPool]_vars /\ \A t \in Threads : SF_vars(Steps(t))

SpecLong == InitLong /\ [][Next]_vars

\* one Shell object whose holder connects and disconnects it as it likes
NextHandle ==
    \/ ShellConnect
    \/ ShellDisconnect
    \/ Activity
    \/ Tick
    \/ Die

InitHandle ==
    /\ InitSession(CfgRun, BOOLEAN) /\ PoolInit /\ HandleInit
    /\ raw_output = << >> /\ completion = << >>
    /\ NoBatch
    /\ NoCheck
    /\ NoCwd

SpecHandle == InitHandle /\ [][NextHandle]_vars

\* one batch for every commands argument
InitBatch ==
    /\ InitSession(CfgRun, {FALSE}) /\ PoolInit /\ NoHandle
    /\ raw_output = << >> /\ completion = << >>
    /\ BatchInit
    /\ NoCheck
    /\ NoCwd

NextBatch ==
    \/ BatchCall
    \/ BatchEntry
    \/ BatchReturn

SpecBatch == InitBatch /\ [][NextBatch]_vars

InitCheck ==
    /\ InitSession(CfgRun, {FALSE}) /\ PoolInit /\ NoHandle
    /\ raw_output = << >> /\ completion = << >>
    /\ NoBatch
    /\ CheckInit
    /\ NoCwd

NextCheck ==
    \/ CheckCall
    \/ CheckRead
    \/ CheckSearch

SpecCheck == InitCheck /\ [][NextCheck]_vars

InitCwd ==
    /\ InitSession(CfgRun, {FALSE}) /\ PoolInit /\ NoHandle
    /\ raw_output = << >> /\ completion = << >>
    /\ NoBatch
    /\ NoCheck
    /\ CwdInit

NextCwd ==
    \/ RunInShell
    \/ BatchEntryCwd
    \/ RemoteRuns

SpecCwd == InitCwd /\ [][NextCwd]_vars

InitWarn == InitSession(CfgWarn, {FALSE}) /\ PoolInit /\ UnitInit

SpecWarn == InitWarn /\ [][Next]_vars

\* one completed run for every accumulated output
InitCleanup ==
    /\ InitSession(CfgRun, {FALSE}) /\ PoolInit /\ NoHandle /\ CleanupInit /\ NoBatch
    /\ NoCheck
    /\ NoCwd

SpecCleanup == InitCleanup /\ [][Cleanup]_vars

\* the thread of the call runs, and the shell at its prompt reads what is typed
SpecLongFair ==
    /\ SpecLong
    /\ WF_vars(ProbeReturns)
    /\ WF_vars(Poll)
    /\ WF_vars(HardTimeout)
    /\ WF_vars(RecStage)
    /\ WF_vars(RecProbeReturns)
    /\ WF_vars(ShellExec)

(* ---------------------------------------------------------------------- *)
(* Properties                                                              *)
(* ---------------------------------------------------------------------- *)

\* the status tokens of a run that saw the END_TOKEN
CompletionStatuses == {"SUCCESS", "COMMAND_FAILED", "COMPLETED"}

\* the result of the last call that returned
LastResult == results[Len(results)]

\* the "out" lines of an output
OutLines(output) == Len(SelectSeq(output, LAMBDA line : line = "out"))

\* C1: every run call returns.  Whatever the remote does (silent, at a
\* prompt, printing without end, dead), a call that has entered run_command
\* returns exactly one result; the loop never polls past the first moment at
\* which the elapsed time has reached the timeout, slow commands included, and
\* recovery is at most LastStage stages.
C1_EveryRunReturns ==
    /\ [](Len(results) = IF pc = "idle" THEN calls ELSE calls - 1)
    /\ [](pc = "loop" => clock <= timeout_seconds * TicksPerSecond)
    /\ [](pc \in {"rec", "rprobe"} => rec_stage \in 1..LastStage)
    /\ (pc # "idle") ~> (pc = "idle")

\* a slow command that stayed silent past the inflated threshold has returned
\* TIMEOUT at its (long) timeout
C1_Witness ==
    /\ pc = "idle"
    /\ Len(results) = 1
    /\ results[1].command = CmdSleep
    /\ results[1].timeout = MaxTimeout
    /\ results[1].status = "TIMEOUT"
    /\ results[1].output = << >>

\* the threads inside run_command on session s, the lock taken
Running(s) == {t \in Threads : th[t].pc \in {"probe", "loop"} /\ th[t].sh = s}

\* C2: two concurrent runs on one session never interleave: at most one
\* thread is inside run_command on a session, and it holds the session lock,
\* so the second sends its wrapped command only after the first has returned.
C2_OneCommandInFlight ==
    \A s \in ShellObjects :
        /\ Cardinality(Running(s)) <= 1
        /\ \A t \in Running(s) : session_lock[s] = t

\* one thread has a command in flight and the other waits for the same session
C2_Witness ==
    \E t, u \in Threads :
        /\ th[t].pc = "loop"
        /\ th[u].pc = "session_wait"
        /\ th[u].op = "run"
        /\ th[u].sh = th[t].sh

\* thread t waits for a session lock that another thread holds
BlockedOnSession(t) ==
    /\ th[t].pc \in {"session_wait", "disconnect_wait"}
    /\ session_lock[th[t].sh] \notin {"free", t}

\* C3: the pool lock is held for lookup and mutation of the registry only:
\* its holder never waits for a session lock, never has a responsiveness probe
\* outstanding and never has a command executing.
C3_PoolLockBrief ==
    \A t \in Threads :
        pool_lock = t =>
            /\ ~BlockedOnSession(t)
            /\ th[t].pc \notin {"probe", "loop", "status_probe", "list_probe", "io_busy"}

\* the steps of a pool operation that read or write the channel of a session
ChannelPcs == {"probe", "loop", "status_probe", "list_probe", "io_busy"}

\* C4: single-writer discipline: a thread that reads or writes the channel of
\* a session holds the lock of that session, so a status, peek, send-input or
\* send-control call never touches the channel while a run is in flight.
C4_SingleWriter ==
    \A t \in Threads :
        th[t].pc \in ChannelPcs => session_lock[th[t].sh] = t

\* C5: run returns exactly one documented status token per call, and the
\* token matches the exit code: SUCCESS exactly with code 0, COMMAND_FAILED
\* exactly with a nonzero code, COMPLETED exactly when the END_TOKEN was seen
\* and no code was extracted.
C5_StatusMatchesExitCode ==
    /\ Len(results) = IF pc = "idle" THEN calls ELSE calls - 1
    /\ \A i \in 1..Len(results) :
          /\ results[i].status \in CompletionStatuses \cup
                {"TIMEOUT", "WAITING_FOR_INPUT", "UNCERTAIN", "ERROR"}
          /\ results[i].status = "SUCCESS" <=> results[i].exit_code = "0"
          /\ results[i].status = "COMMAND_FAILED" <=> results[i].exit_code = "1"
          /\ results[i].status = "COMPLETED" <=> results[i].exit_code = "unknown"

\* a failed command, then a trivial command that succeeded
C5_Witness ==
    /\ Len(results) = 2
    /\ results[1].status = "COMMAND_FAILED"
    /\ results[2].status = "SUCCESS"
    /\ results[2].exit_code = "0"

\* C6: a result that reports completion of a command that did not prompt
\* reports the exit code the command produced and the lines it printed,
\* whatever precedes the command's output in the channel, the echo of the
\* wrapped line included.
C6_FaithfulCompletion ==
    (/\ pc = "idle"
     /\ calls > 0
     /\ LastResult.status \in CompletionStatuses
     /\ ~true_asked)
    => /\ true_code \in {"0", "1"}
       /\ LastResult.exit_code = true_code
       /\ OutLines(LastResult.output) = true_out

\* C7: at the timeout the call goes through recovery and returns TIMEOUT with
\* the recovery outcome; a sleep 30 that stayed silent up to its timeout ends
\* TIMEOUT, never UNCERTAIN; and after a TIMEOUT whose recovery reported the
\* shell recovered, a trivial command on the same (living) session succeeds.
C7_TimeoutThenUsable ==
    /\ pc = "loop" => clock <= timeout_seconds * TicksPerSecond
    /\ \A i \in 1..Len(results) :
          /\ results[i].status = "TIMEOUT" => results[i].recovery \in {"recovered", "failed"}
          /\ results[i].command = CmdSleep => results[i].status # "UNCERTAIN"
    /\ (/\ pc = "idle"
        /\ calls = 1
        /\ LastResult.command = CmdSleep
        /\ LastResult.status # "ERROR"
        /\ true_out = 0
        /\ ~true_asked
        /\ true_code \in {"none", "late"})
       => LastResult.status = "TIMEOUT"
    /\ (/\ Len(results) = 2
        /\ results[1].status = "TIMEOUT"
        /\ results[1].recovery = "recovered"
        /\ results[2].command = CmdEcho
        /\ rstate # "dead")
       => results[2].status = "SUCCESS"

\* C8: an ordinary command (its process alive) that printed a prompt line
\* last, in time, and has not finished returns WAITING_FOR_INPUT with the
\* pattern and the recovery outcome (never UNCERTAIN, never completion, and
\* TIMEOUT only if the prompt was still unread at the timeout); a trivial
\* command on the same (living) session then succeeds.
C8_PromptThenUsable ==
    /\ (/\ pc = "idle"
        /\ calls = 1
        /\ ~is_slow_silent_command(LastResult.command)
        /\ true_last \in {"ask", "askyn"}
        /\ true_code = "none"
        /\ rstate # "dead")
       => \/ /\ LastResult.status = "WAITING_FOR_INPUT"
             /\ LastResult.pattern \in {"yn", "colon"}
             /\ LastResult.recovery \in {"recovered", "failed"}
          \/ /\ LastResult.status = "TIMEOUT"
             /\ detect_interactive_prompt(LastResult.output) = "none"
    /\ (/\ Len(results) = 2
        /\ results[1].status = "WAITING_FOR_INPUT"
        /\ ~is_slow_silent_command(results[1].command)
        /\ results[2].command = CmdEcho
        /\ rstate # "dead")
       => results[2].status = "SUCCESS"

\* C9: a slow command never returns UNCERTAIN: its outcomes are completion,
\* WAITING_FOR_INPUT, TIMEOUT and ERROR, and while its process lives the
\* empty-poll counter stays below the inflated threshold, reset when it
\* reaches it.
C9_SlowNeverUncertain ==
    /\ \A i \in 1..Len(results) :
          results[i].command = CmdSleep =>
              results[i].status \in CompletionStatuses \cup
                  {"WAITING_FOR_INPUT", "TIMEOUT", "ERROR"}
    /\ (pc = "loop" /\ command = CmdSleep /\ process_alive)
       => intervals_without_progress
             < STUCK_THRESHOLD_INTERVALS * SLOW_COMMAND_TIMEOUT_MULTIPLIER

\* sleep has been silent since the call began, the counter has been reset at
\* the inflated threshold, and the call still waits
C9_Witness ==
    /\ pc = "loop"
    /\ command = CmdSleep
    /\ process_alive
    /\ accumulated_output = << >>
    /\ last_output_time = 0
    /\ clock >= STUCK_THRESHOLD_INTERVALS * SLOW_COMMAND_TIMEOUT_MULTIPLIER
    /\ intervals_without_progress = 0

\* the lookup of thread t is about to miss: its shell id, or its job id, is
\* not in the registry
LookupMisses(t) ==
    /\ th[t].pc = "lookup"
    /\ \/ th[t].op \in SessionOps /\ th[t].sid \notin DOMAIN shells
       \/ th[t].op = "check" /\ th[t].jid \notin DOMAIN background_jobs

\* C10: an operation addressed to an unknown shell id or job id returns the
\* not-found error at its lookup; the registry of shells, the registry of
\* jobs and the connection state of every shell stay as they are, and no
\* line is written to a channel.
C10_UnknownIdNotFound ==
    [][\A t \in Threads :
          (LookupMisses(t) /\ th'[t] # th[t])
          => /\ th'[t].pc = "idle"
             /\ th'[t].result = "not_found"
             /\ UNCHANGED <<shells, background_jobs, shell_connected, shell_alive, sent>>]_vars

\* an operation has returned not-found while a shell is registered and the
\* other thread has a command in flight on it
C10_Witness ==
    \E t, u \in Threads :
        /\ th[t].pc = "idle"
        /\ th[t].result = "not_found"
        /\ th[u].pc = "loop"
        /\ th[u].sh \in {shells[k] : k \in DOMAIN shells}

\* C11: starting a session never replaces, hides or unregisters a registered
\* session: no step gives a registered id another Shell object, so every
\* successful start adds one entry to the registry
C11_StartKeepsRegistered ==
    [][\A k \in DOMAIN shells : k \in DOMAIN shells' => shells'[k] = shells[k]]_vars

\* C12: connect is idempotent: called on a connected session whose process is
\* alive it returns ALREADY_CONNECTED, spawns no second process, sends nothing
\* and leaves the process handle, the connected flag and the activity stamp as
\* they were
C12_ConnectIdempotent ==
    [][(connect_calls' # connect_calls /\ is_connected /\ process # 0
            /\ rstate \in {"prompt", "fg"})
          => /\ connect_result' = "ALREADY_CONNECTED"
             /\ UNCHANGED <<process, is_connected, last_activity, rstate, chan, inq>>]_vars

\* a second connect call has returned ALREADY_CONNECTED on the process the
\* first one spawned, after a command moved the activity stamp
C12_Witness ==
    /\ connect_result = "ALREADY_CONNECTED"
    /\ connect_calls = 2
    /\ process = 1
    /\ is_connected
    /\ rstate = "prompt"
    /\ last_activity > 0
    /\ time_now > last_activity

\* C13: start registers a session only if its handshake succeeded: a step that
\* gives an id a Shell object is made by a start whose Shell is connected, and
\* a start that fails at the device check or at the handshake returns its error
\* and leaves the registries as they were
C13_RegisterOnlyConnected ==
    [][/\ \A k \in DOMAIN shells' :
             (k \notin DOMAIN shells \/ shells'[k] # shells[k])
                 => \E t \in Threads : /\ th[t].op = "start"
                                        /\ th[t].sid = k
                                        /\ th[t].sh = shells'[k]
                                        /\ shell_connected[th[t].sh]
       /\ \A t \in Threads :
             /\ (th[t].pc = "connect" /\ th'[t] # th[t] /\ ~shell_connected'[th[t].sh])
                    => th'[t].pc = "idle" /\ th'[t].result = "start_failed"
             /\ (th'[t] # th[t] /\ th'[t].result = "start_failed")
                    => UNCHANGED <<shells, background_jobs>>]_vars

\* a start has returned its error while a session is registered, and the Shell
\* it made is neither connected nor registered
C13_Witness ==
    /\ DOMAIN shells # {}
    /\ \E t \in Threads : th[t].pc = "idle" /\ th[t].result = "start_failed"
    /\ \E o \in made \cap ShellObjects :
          ~shell_connected[o] /\ sent[o] = 0 /\ o \notin {shells[k] : k \in DOMAIN shells}

\* C14: stop(id) removes exactly the session of that id and disconnects it,
\* leaving every other session registered and connected; stop_all leaves the
\* session registry and the job registry empty and every session that was
\* registered disconnected
C14_StopRemovesExactly ==
    [][\A t \in Threads :
          /\ (th[t].op = "stop" /\ th[t].pc = "lookup" /\ th'[t] # th[t]
                  /\ th[t].sid \in DOMAIN shells)
                => /\ DOMAIN shells' = DOMAIN shells \ {th[t].sid}
                   /\ \A k \in DOMAIN shells' : shells'[k] = shells[k]
                   /\ th'[t].sh = shells[th[t].sid]
                   /\ UNCHANGED <<shell_connected, background_jobs>>
          /\ (th[t].op = "stop" /\ th[t].pc = "disconnect_wait" /\ th'[t] # th[t])
                => /\ th'[t].pc = "idle"
                   /\ ~shell_connected'[th[t].sh]
                   /\ \A o \in ShellObjects \ {th[t].sh} :
                         shell_connected'[o] = shell_connected[o]
                   /\ UNCHANGED <<shells, background_jobs>>
          /\ (th[t].op = "stop_all" /\ th'[t].pc = "idle")
                => /\ shells' = << >>
                   /\ background_jobs' = << >>
                   /\ \A k \in DOMAIN shells : ~shell_connected'[shells[k]]]_vars

\* a stop has disconnected one session while another one is registered and
\* connected
C14_Witness ==
    \E o, q \in made \cap ShellObjects :
        /\ o # q
        /\ ~shell_connected[o] /\ sent[o] >= 1 /\ \A k \in DOMAIN shells : shells[k] # o
        /\ shell_connected[q] /\ \E k \in DOMAIN shells : shells[k] = q
        /\ \A t \in Threads : th[t].pc = "idle"

\* C15: no protocol token leaks into the cleaned output of a completed run: no
\* line of the OUTPUT section of a SUCCESS, COMMAND_FAILED or COMPLETED result
\* holds the END_TOKEN prefix or an EXIT_TOKEN, also when the command printed
\* lines that resemble them
C15_NoTokenInOutput ==
    \A c \in 1..Len(completion) :
        /\ completion[c].status \in {"SUCCESS", "COMMAND_FAILED", "COMPLETED"}
        /\ \A i \in 1..Len(completion[c].output) : ~HoldsToken(completion[c].output[i])

\* a command printed a line that resembles the marker, and one that holds a
\* string of the form of a token, before it ended; the run has completed
C15_Witness ==
    /\ completion # << >>
    /\ completion[1].status = "SUCCESS"
    /\ \E i, j, k \in 1..Len(raw_output) :
          /\ i < k /\ j < k
          /\ raw_output[i] = "mimic"
          /\ raw_output[j] = "mimichex"
          /\ raw_output[k] = "exit0"
    /\ completion[1].output = <<"out">>

\* C16: when the leading word of a command is on the dangerous list and no
\* exception applies, the warning is in every outcome of the call: completion,
\* TIMEOUT, WAITING_FOR_INPUT, UNCERTAIN and ERROR results alike
C16_WarningOnEveryOutcome ==
    \A i \in 1..Len(results) :
        check_dangerous_command(results[i].command) => results[i].warning

\* C17: a run that ends TIMEOUT, UNCERTAIN or WAITING_FOR_INPUT returns the
\* output captured so far in the trailing OUTPUT: section of its result, so
\* that the extraction of run_commands_batch still carries it
C17_PartialOutputExtracted ==
    (results # << >> /\ LastResult.status \in {"TIMEOUT", "UNCERTAIN", "WAITING_FOR_INPUT"})
        => extract_output(LastResult) = LastResult.output

\* C18: a pool operation returns a result for every input, malformed ones
\* included: no exception leaves run_commands_batch
C18_NoFaultPropagates == batch_pc # "raised"

\* the run_command calls of the batch whose own run did not end SUCCESS
Unsuccessful == {i \in 1..Len(ran) : ran[i].result.status # "SUCCESS"}

\* the entries of the list that hold a command
NonEmpty == {i \in 1..Len(commands) : commands[i] # "empty"}

\* C19: with stop_on_error, once an executed command was not successful no
\* later entry is sent to the session and the result holds the STOPPED marker
\* naming that command; without stop_on_error every entry that is not empty is
\* executed, in the order of the list
C19_StopOnFirstFailure ==
    (batch_return # << >> /\ batch_return[1].status = "BATCH RESULTS") =>
        /\ \A i, j \in 1..Len(ran) : i < j => ran[i].entry < ran[j].entry
        /\ stop_on_error =>
              \A i \in Unsuccessful :
                  /\ i = Len(ran)
                  /\ \E k \in 1..Len(batch_results) :
                        batch_results[k] = [entry |-> ran[i].entry, says |-> "STOPPED"]
        /\ ~stop_on_error => {ran[i].entry : i \in 1..Len(ran)} = NonEmpty

\* C20: the tallies agree with what ran: succeeded + failed is the number of
\* commands executed and never more than the number of entries, and a command
\* counts as succeeded exactly when its own run ended SUCCESS, with exit code 0
C20_TalliesMatchRuns ==
    (batch_return # << >> /\ batch_return[1].status = "BATCH RESULTS") =>
        /\ batch_return[1].succeeded + batch_return[1].failed = Len(ran)
        /\ batch_return[1].succeeded + batch_return[1].failed <= batch_return[1].total
        /\ batch_return[1].succeeded = Len(ran) - Cardinality(Unsuccessful)

\* C21: the job registry changes in two ways only: a background start whose
\* launch command returned a completion status adds one record under a job id
\* that was not in the registry, and stop_all empties it; no other step adds,
\* removes or modifies a job record
C21_JobRegistryLifecycle ==
    [][background_jobs' # background_jobs =>
          \/ background_jobs' = << >> /\ \E t \in Threads : th[t].op = "stop_all"
          \/ \E t \in Threads :
                /\ th[t].op = "background"
                /\ th[t].result \in CompletionStatuses
                /\ th[t].jid \notin DOMAIN background_jobs
                /\ background_jobs' = (th[t].jid :> th[t].sid) @@ background_jobs]_vars

\* C22: a check of a registered job whose session exists makes a fresh read of
\* the output file and a fresh search of the process table, and it reports
\* COMPLETED only when that search ran and found the job absent; when the job
\* was found, or the search timed out or failed, it reports RUNNING
C22_CompletedOnlyWhenAbsent ==
    /\ [](check_pc = "idle" /\ check_return # << >> /\ check_return[1].status # "ERROR"
            => check_return[1].status =
                  IF search_result.search = "absent" THEN "COMPLETED" ELSE "RUNNING")
    /\ [][(check_pc = "read" /\ check_pc' = "search") \/ (check_pc = "search" /\ check_pc' = "idle")
             => job_runs' = job_runs + 1]_vars

\* lines of the call or probe in progress that wait in what was typed
FreshInput(q) == {i \in 1..Len(q) : q[i] \in {"cmd", "pingcmd"}}

\* the result the step in hand has returned
Returned(reason) ==
    /\ pc' = "idle"
    /\ Len(results') = Len(results) + 1
    /\ results'[Len(results')].status = "ERROR"
    /\ results'[Len(results')].reason = reason

\* C23: run checks its preconditions in order and returns at the first that
\* fails, without sending the command: an empty or blank command gives the
\* empty-command ERROR, also on a dead session and without a probe; otherwise
\* a session that is not alive gives the not-connected ERROR without a probe;
\* otherwise a failed probe gives the not-responding ERROR.  Nothing is
\* written to the channel when one of the first two checks fails
C23_PreconditionsInOrder ==
    [][/\ calls' = calls + 1 =>
             IF command' = CmdBlank
             THEN Returned("Empty command.") /\ FreshInput(inq') = {}
             ELSE IF ~is_connected \/ rstate \notin {"prompt", "fg"}
             THEN Returned("Shell not connected.") /\ FreshInput(inq') = {}
             ELSE pc' = "probe" /\ results' = Summaries(results)
                  /\ \A i \in 1..Len(inq') : inq'[i] # "cmd"
       /\ (pc = "probe" /\ pc' # pc /\ ~PingFound) =>
             /\ Returned("Shell not responding.")
             /\ FreshInput(inq') = {}]_vars

\* a call on a dead session has returned the not-connected ERROR, and no
\* probe line was typed
C23_Witness ==
    /\ pc = "idle"
    /\ Len(results) = 1
    /\ LastResult.reason = "Shell not connected."
    /\ command # CmdBlank
    /\ rstate = "dead"
    /\ inq = << >>

\* C24: UNCERTAIN is returned only for a command that is not classified slow,
\* at a poll that read no bytes, when the count of consecutive empty polls has
\* reached the stuck threshold and both the elapsed time and the time since
\* the last bytes exceed the minimum before the check; on this path recovery
\* is not invoked, nothing is sent, and the command is neither interrupted nor
\* issued again
C24_UncertainOnlyWhenStuck ==
    [][(Len(results') > Len(results) /\ results'[Len(results')].status = "UNCERTAIN") =>
          /\ pc = "loop" /\ pc' = "idle"
          /\ ~is_slow_silent_command(command)
          /\ chan' = chan
          /\ results'[Len(results')].output = accumulated_output
          /\ process_alive => intervals_without_progress + 1 >= STUCK_THRESHOLD_INTERVALS
          /\ clock > MIN_TIME_BEFORE_STUCK_CHECK
          /\ clock + PROGRESS_CHECK_INTERVAL - last_output_time > MIN_TIME_BEFORE_STUCK_CHECK
          /\ results'[Len(results')].recovery = "none"
          /\ inq' = inq
          /\ rstate' = rstate
          /\ prog_cur' = prog_cur]_vars

\* a call has returned UNCERTAIN and its command is still in the foreground
C24_Witness ==
    /\ pc = "idle"
    /\ results # << >>
    /\ LastResult.status = "UNCERTAIN"
    /\ LastResult.recovery = "none"
    /\ rstate = "fg"
    /\ prog_cur

\* run_command is inside _multi_stage_interrupt
InRecovery == pc \in {"rec", "rprobe"}

\* C25: recovery sends its stages in the fixed order (interrupt, end-of-input,
\* suspend then kill/foreground, bare newline), each followed by a probe;
\* stage k+1 is sent only if the probes after stages 1..k all failed; it
\* reports recovered exactly when a probe succeeded and failed exactly when
\* all four failed.  Recovery is invoked exactly once on each TIMEOUT and
\* WAITING_FOR_INPUT path and on no other outcome
C25_RecoveryStagesInOrder ==
    [][/\ (~InRecovery /\ InRecovery') => (pc = "loop" /\ pc' = "rec" /\ rec_stage' = 1)
       /\ (InRecovery /\ InRecovery') =>
             \/ rec_stage' = rec_stage /\ pc' = pc
             \/ rec_stage' = rec_stage /\ pc = "rec" /\ pc' = "rprobe"
             \/ /\ rec_stage' = rec_stage + 1 /\ rec_stage < LastStage /\ pc' = "rec"
                /\ IF pc = "rprobe" THEN ~PingFound ELSE ~is_alive'
       /\ (InRecovery /\ ~InRecovery') =>
             /\ pc' = "idle"
             /\ Len(results') = Len(results) + 1
             /\ results'[Len(results')].status = rec_why
             /\ rec_why \in {"TIMEOUT", "WAITING_FOR_INPUT"}
             /\ IF pc = "rprobe" /\ PingFound
                THEN results'[Len(results')].recovery = "recovered"
                ELSE results'[Len(results')].recovery = "failed" /\ rec_stage = LastStage
       /\ (~InRecovery /\ Len(results') > Len(results)) =>
             /\ results'[Len(results')].status \notin {"TIMEOUT", "WAITING_FOR_INPUT"}
             /\ results'[Len(results')].recovery = "none"]_vars

\* a call at a prompt has gone through the four stages, each probe sent to a
\* live shell has failed, and it has returned WAITING_FOR_INPUT
C25_Witness ==
    /\ pc = "idle"
    /\ results # << >>
    /\ LastResult.status = "WAITING_FOR_INPUT"
    /\ LastResult.recovery = "failed"
    /\ rstate = "fg"

Handshaken == connect_calls' # connect_calls /\ connect_result' # "ALREADY_CONNECTED"

\* C27: the connected flag is set only at the end of a successful handshake:
\* the prompt was detected, after at most one empty line, and in root mode
\* only the root prompt was seen and the output of id held uid=0; a user shell
\* never sends su.  Every failing handshake (no prompt, access denied, su
\* absent, confirmation pending, timeout of su, verification failure, end of
\* stream) leaves the session with no channel and not connected; and in every
\* state a connected session has a channel handle
C27_ConnectedOnlyAfterHandshake ==
    /\ [](is_connected => process # 0)
    /\ [][/\ (is_connected' /\ ~is_connected) => (Handshaken /\ connect_result' = "CONNECTED")
          /\ Handshaken =>
                LET ok == /\ device'.prompt \in {"prompt", "late"}
                          /\ shell_type = "root" => (device'.su = "root" /\ device'.id = "uid0")
                IN /\ ok => /\ connect_result' = "CONNECTED"
                            /\ is_connected' /\ process' # 0
                   /\ ~ok => /\ connect_result' = "ERROR"
                             /\ ~is_connected' /\ process' = 0
                   /\ Len(SelectSeq(handle_sent', LAMBDA l : l = "")) <= 1
                   /\ shell_type = "user" => \A i \in 1..Len(handle_sent') : handle_sent'[i] # "su"]_vars

\* a second or later connect call of a root shell has sent an empty line, su
\* and id and has failed at the verification: no process, not connected
C27_Witness ==
    /\ shell_type = "root"
    /\ connect_calls > 1
    /\ connect_result = "ERROR"
    /\ connect_reason = "su succeeded but uid != 0."
    /\ handle_sent = <<"", "su", "id">>
    /\ process = 0
    /\ ~is_connected

\* C28: disconnect is idempotent and always clears the connected state: after
\* any disconnect (graceful, by the forced fallback, of a session never
\* connected or already disconnected) the session has no channel handle, is
\* not connected and the result is DISCONNECTED; a second disconnect changes
\* nothing and sends nothing
C28_DisconnectIdempotent ==
    [][disconnect_calls' # disconnect_calls =>
          /\ process' = 0
          /\ ~is_connected'
          /\ disconnect_result' = "DISCONNECTED"
          /\ process = 0 =>
                /\ handle_sent' = << >>
                /\ UNCHANGED <<process, is_connected, rstate, chan, inq, last_activity,
                               connect_calls, connect_result>>]_vars

\* a session that was connected has been disconnected twice, and the second
\* call sent nothing
C28_Witness ==
    /\ disconnect_calls = 2
    /\ disconnect_result = "DISCONNECTED"
    /\ connect_result = "CONNECTED"
    /\ process = 0
    /\ ~is_connected
    /\ rstate = "none"
    /\ handle_sent = << >>

\* a line with one of the specific prompts is among the last lines read
SpecificInLastLines(acc) ==
    \E i \in 1..Len(acc) : i > Len(acc) - PromptWindow /\ acc[i] \in {"askyn", "oldaskyn"}

\* C29: for a command classified slow only the specific prompts (the y/n
\* forms, password and passphrase, "Are you sure", "Overwrite?") in the last
\* lines give WAITING_FOR_INPUT; a line that only looks like a prompt (a
\* trailing colon or question mark, a pager marker, "Enter ...:") does not,
\* and the command is polled on until it completes or times out
C29_SlowOnlySpecificPrompts ==
    [][(is_slow_silent_command(command) /\ pc = "loop" /\ pc' # "loop") =>
          \/ /\ pc' = "rec" /\ rec_why' = "WAITING_FOR_INPUT"
             /\ SpecificInLastLines(accumulated_output')
          \/ /\ pc' = "rec" /\ rec_why' = "TIMEOUT"
             /\ clock >= timeout_seconds * TicksPerSecond
          \/ /\ pc' = "idle"
             /\ Len(results') = Len(results) + 1
             /\ results'[Len(results')].status \in CompletionStatuses]_vars

\* a slow command has printed a line that ends like a prompt and is polled on
C29_Witness ==
    /\ pc = "loop"
    /\ is_slow_silent_command(command)
    /\ accumulated_output # << >>
    /\ accumulated_output[Len(accumulated_output)] = "ask"
    /\ rstate = "fg"

\* C30: when the channel reaches its end (the shell process dies) while a
\* command is executing, run detects it: the call returns the ERROR of a lost
\* connection and clears the connected flag, and does not poll on to UNCERTAIN
\* or TIMEOUT with the session still marked connected
C30_LostConnectionDetected ==
    [][(pc \in {"loop", "rec", "rprobe"} /\ ~process_alive /\ Len(results') > Len(results)) =>
          /\ results'[Len(results')].status = "ERROR"
          /\ ~is_connected']_vars

Stopped(s) ==
    /\ s \in made
    /\ ~shell_connected[s]
    /\ \A t \in Threads : ~(th[t].op = "start" /\ th[t].sh = s)

\* where a thread is when it has written to the channel of its Shell
WritingPcs == {"probe", "loop", "status_probe", "io_busy", "list_probe"}

\* C32: once stop or stop_all has disconnected a session nothing is written to
\* its channel: a run, batch, background or check call that resolved the
\* session before its removal and gets the session lock afterwards returns
\* its error and sends nothing, and the session is never connected again
C32_NothingAfterStop ==
    [][\A s \in ShellObjects : Stopped(s) =>
          /\ ~shell_connected'[s]
          /\ sent'[s] = sent[s]
          /\ session_lock'[s] = session_lock[s]
          /\ \A t \in Threads :
                (th'[t] # th[t] /\ s \in {th[t].sh, th'[t].sh}) =>
                    /\ th'[t].sh = s => th'[t].pc \notin WritingPcs
                    /\ th[t].pc = "session_wait" =>
                          \/ th'[t].pc = "idle" /\ th'[t].result = "returned"
                          \/ th'[t].pc = "session_wait" /\ th'[t].left = th[t].left - 1]_vars

\* a stop has returned, and a run that resolved the session before waits for
\* the lock of the stopped session
C32_Witness ==
    \E t \in Threads, u \in Threads :
        /\ th[t].pc = "idle" /\ th[t].result = "returned"
        /\ th[u].pc = "session_wait" /\ th[u].op = "run"
        /\ Stopped(th[u].sh)
        /\ th[u].sh \notin Registered
        /\ sent[th[u].sh] > 0

\* the probe in hand has returned true: run_command goes on to send the
\* command, or recovery reports the shell recovered
ProbeSucceeds ==
    \/ pc = "probe" /\ pc' = "loop"
    \/ /\ pc = "rprobe" /\ Len(results') > Len(results)
       /\ results'[Len(results')].recovery = "recovered"

\* C33: the probe succeeds only if the remote shell executed the probe's
\* echo: the token in the terminal's echo of the typed probe line, while a
\* program in the foreground holds the terminal, does not make it return
\* true; the precondition of run passes, and recovery reports the shell
\* recovered, only when the shell is back at its prompt
C33_ProbeMeansShellAnswered ==
    [][ProbeSucceeds => \E i \in 1..Len(chan) : chan[i] = "ping"]_vars

\* lines that the command of an earlier call printed
StaleLines == {"oldout", "oldask", "oldaskyn"}

\* C34: the output and the status of a run depend on its own command only:
\* what an earlier command of the session prints after its own call has
\* returned is in no later call's output (the output a prompt was detected in
\* included)
C34_NoStaleOutput ==
    (pc = "idle" /\ results # << >>) =>
        \A i \in 1..Len(LastResult.output) : LastResult.output[i] \notin StaleLines

\* C35: an ordinary command that prints its output and finishes before the
\* timeout gets the same status however the output is split over the reads:
\* a read after which the accumulated output ends on a line that looks like a
\* prompt, with more output and the END_TOKEN still to come, does not turn
\* the completing command into WAITING_FOR_INPUT
C35_SplitReadsSameStatus ==
    (/\ pc = "idle"
     /\ Len(results) = 1
     /\ ~is_slow_silent_command(LastResult.command)
     /\ true_code \in {"0", "1"}
     /\ rstate # "dead")
    => LastResult.status # "WAITING_FOR_INPUT"

\* a call leaves the polling loop with a result or into recovery
LeavesLoop == pc = "loop" /\ pc' # "loop"

\* a call returns UNCERTAIN
ReturnsUncertain ==
    /\ Len(results') > Len(results)
    /\ results'[Len(results')].status = "UNCERTAIN"

\* C36: a silent ordinary command whose timeout is at most the minimum before
\* the stuck check ends TIMEOUT and never UNCERTAIN; UNCERTAIN is returned
\* only at an elapsed time above the minimum and below the timeout, after at
\* least the threshold of consecutive empty polls; the timeout check comes
\* before the read, so a call whose time is up goes to the TIMEOUT verdict
\* without reading and a call gets one verdict
C36_StallBeforeTimeout ==
    /\ [][ReturnsUncertain =>
            /\ LeavesLoop
            /\ timeout_seconds > MinTimeSeconds
            /\ clock > MIN_TIME_BEFORE_STUCK_CHECK
            /\ clock < timeout_seconds * TicksPerSecond
            /\ process_alive => intervals_without_progress + 1 >= STUCK_THRESHOLD_INTERVALS
            /\ Len(results') = Len(results) + 1]_vars
    /\ [][(LeavesLoop /\ timed_out(clock, timeout_seconds)) =>
            /\ pc' = "rec"
            /\ rec_why' = "TIMEOUT"
            /\ chan' = chan
            /\ accumulated_output' = accumulated_output
            /\ results' = results]_vars
    /\ [][(/\ LeavesLoop
           /\ ~is_slow_silent_command(command)
           /\ timeout_seconds <= MinTimeSeconds
           /\ accumulated_output = << >>
           /\ chan = << >>) =>
            /\ pc' = "rec"
            /\ rec_why' = "TIMEOUT"]_vars

\* an ordinary command stayed silent under a timeout above the minimum and
\* the call returned UNCERTAIN
C36_Witness ==
    /\ pc = "idle"
    /\ results # << >>
    /\ LastResult.status = "UNCERTAIN"
    /\ LastResult.output = << >>
    /\ ~is_slow_silent_command(LastResult.command)
    /\ timeout_seconds = StuckTimeout

\* C37: a working directory does not change how a command is judged: the
\* advisory is attached exactly when it is for the command alone, and the
\* command is classified slow or ordinary from the command itself
C37_CwdKeepsJudgement ==
    given.via # "none" =>
        /\ warning = check_dangerous_command(given.command)
        /\ slow_class = is_slow_silent_command(given.command)

\* C38: a working directory applies to its command only: a command without
\* one that follows a command with one runs in the directory the session had
\* before
C38_CwdLeavesSessionDir ==
    \A i \in 2..Len(executed) :
        (executed[i].working_directory = NoDir /\ executed[i - 1].working_directory # NoDir)
            => executed[i].dir = executed[i - 1].before

\* C39: a session created in root mode that is reported connected and whose
\* channel is open has the escalated shell at its terminal: no run and no
\* recovery stage leaves it attached to the shell that adb started
C39_RootSessionStaysEscalated ==
    (shell_type = "root" /\ is_connected /\ process_alive) => su_shell

============================================================================
